---- MODULE Spec2Model ----
(***************************************************************************)
(* Duplicate analysis and section-aware merge engine of the documentation  *)
(* inbox tools:                                                            *)
(*   scripts/analyze_inbox_duplicates.py   (InboxAnalyzer)                 *)
(*   scripts/docs/merge_duplicates.py      (DocumentMerger)                *)
(*                                                                         *)
(* Modelling conventions                                                   *)
(*  - A document's content is the list of its lines (what splitlines()     *)
(*    returns); every modelled document ends each line with a newline.     *)
(*  - A line is a string.  The lines of the documents put in the inbox are *)
(*    one character wide, so the character sequence of a content is its    *)
(*    lines interleaved with "\n".                                         *)
(*  - md5 is modelled as an injective function: the hash of a value is the *)
(*    value itself.                                                        *)
(*  - A file name is a record [stem, suffix]; Path(name).stem is .stem.    *)
(*  - A path is a record [dir, name]; dir "" is the inbox root.            *)
(*  - Ratios are exact rationals [num, den]; a rounded ratio is an integer *)
(*    number of thousandths.                                               *)
(*  - Sequence positions are 0-based in blocks, as in Python.              *)
(*  - A file that cannot be read is one whose open() raises; the set of    *)
(*    such files is part of the inbox the analyzer is run on.              *)
(*  - The texts drawn for calculate_similarity are character sequences;    *)
(*    the lists drawn for calculate_line_overlap are lists of hashes.      *)
(*  - Printed messages are not part of the state, except the merger's      *)
(*    per-pair lines.                                                      *)
(***************************************************************************)
EXTENDS Integers, Sequences, FiniteSets, TLC

(***************************************************************************)
(* Bounds                                                                  *)
(***************************************************************************)
\* longest line list drawn as an input of find_unique_sections
MaxLen == 3
\* largest number of documents in the inbox
MaxFiles == 3

\* lines of the line lists drawn for find_unique_sections
PartLines == {"p", "q", "r"}

\* line hashes of the lists drawn for calculate_line_overlap
OverlapHashes == {"h1", "h2", "h3"}

\* characters of the texts drawn for calculate_similarity
SimilarityChars == {"x", "y", "\n"}

(***************************************************************************)
(* Helpers on sequences                                                    *)
(***************************************************************************)
Range(s) == {s[i] : i \in DOMAIN s}

Max(a, b) == IF a >= b THEN a ELSE b

SeqsUpTo(S, n) == UNION {[1..k -> S] : k \in 0..n}

\* number of positions of s holding x
Count(s, x) == Cardinality({i \in DOMAIN s : s[i] = x})

\* s[lo:hi] of Python (0-based, hi exclusive)
Slice(s, lo, hi) == [k \in 1..(hi - lo) |-> s[lo + k]]

RECURSIVE Flatten(_)
Flatten(ss) == IF ss = <<>> THEN <<>> ELSE Head(ss) \o Flatten(Tail(ss))

\* s restricted to the positions (1-based) in keep, in order
RECURSIVE SelectPos(_, _, _)
SelectPos(s, keep, k) ==
    IF k > Len(s) THEN <<>>
    ELSE (IF k \in keep THEN <<s[k]>> ELSE <<>>) \o SelectPos(s, keep, k + 1)

(***************************************************************************)
(* difflib.SequenceMatcher(None, a, b), as the three callers build it:     *)
(* no junk predicate, autojunk left at its default.                        *)
(***************************************************************************)
\* elements of b dropped from the index b2j: with autojunk, when b has at
\* least 200 elements, those occurring more than len(b) // 100 + 1 times
Popular(b) ==
    IF Len(b) >= 200
    THEN {x \in Range(b) : Count(b, x) > (Len(b) \div 100) + 1}
    ELSE {}

\* length of the run of equal, indexed elements starting at a[i], b[j]
RECURSIVE RunLen(_, _, _, _, _, _, _)
RunLen(a, b, i, j, ahi, bhi, pop) ==
    IF i < ahi /\ j < bhi /\ a[i + 1] = b[j + 1] /\ b[j + 1] \notin pop
    THEN 1 + RunLen(a, b, i + 1, j + 1, ahi, bhi, pop)
    ELSE 0

\* the extension loops of find_longest_match: grow the block over equal
\* elements on both sides (elements are never junk here)
RECURSIVE ExtendBack(_, _, _, _, _)
ExtendBack(a, b, m, alo, blo) ==
    IF m.a > alo /\ m.b > blo /\ a[m.a] = b[m.b]
    THEN ExtendBack(a, b, [a |-> m.a - 1, b |-> m.b - 1, size |-> m.size + 1], alo, blo)
    ELSE m

RECURSIVE ExtendFwd(_, _, _, _, _)
ExtendFwd(a, b, m, ahi, bhi) ==
    IF m.a + m.size < ahi /\ m.b + m.size < bhi
       /\ a[m.a + m.size + 1] = b[m.b + m.size + 1]
    THEN ExtendFwd(a, b, [m EXCEPT !.size = m.size + 1], ahi, bhi)
    ELSE m

\* t is found before o by the search of find_longest_match: it is longer, or
\* as long and starts earlier in a, or also starts there and not later in b
FoundFirst(t, o) ==
    \/ t[3] > o[3]
    \/ t[3] = o[3] /\ t[1] < o[1]
    \/ t[3] = o[3] /\ t[1] = o[1] /\ t[2] <= o[2]

\* the run the search finds first
FirstFound(runs) == CHOOSE x \in runs : \A o \in runs : FoundFirst(x, o)

\* the runs of that length
RunsOfLength(runs, n) == {x \in runs : x[3] = n}

\* the length of the longest run
LongestLength(lengths) == CHOOSE n \in lengths : \A m \in lengths : m <= n

\* the run <<i, j, length>> as a block
BlockOf(t) == [a |-> t[1], b |-> t[2], size |-> t[3]]

\* the block the search settles on, among the runs <<i, j, length>> of the
\* window; (alo, blo, 0) when nothing matches
BestRun(runs, alo, blo) ==
    IF \A t \in runs : t[3] = 0
    THEN [a |-> alo, b |-> blo, size |-> 0]
    ELSE BlockOf(FirstFound(RunsOfLength(runs, LongestLength({x[3] : x \in runs}))))

\* the runs of the window a[alo:ahi], b[blo:bhi], one per pair of positions
RunsOf(a, b, alo, ahi, blo, bhi, pop) ==
    {<<ij[1], ij[2], RunLen(a, b, ij[1], ij[2], ahi, bhi, pop)>> :
        ij \in (alo..(ahi - 1)) \X (blo..(bhi - 1))}

\* find_longest_match(alo, ahi, blo, bhi): the longest run, of those the one
\* starting earliest in a, of those the one starting earliest in b; then the
\* extension loops
FindLongestMatch(a, b, alo, ahi, blo, bhi) ==
    ExtendFwd(a, b,
        ExtendBack(a, b, BestRun(RunsOf(a, b, alo, ahi, blo, bhi, Popular(b)), alo, blo),
                   alo, blo),
        ahi, bhi)

\* the recursion of get_matching_blocks: the longest match m of the window,
\* then the windows left and right of it; the result is sorted
RECURSIVE MatchWindow(_, _, _, _, _, _)
MatchAround(a, b, alo, ahi, blo, bhi, m) ==
    IF m.size = 0 THEN <<>>
    ELSE (IF alo < m.a /\ blo < m.b
          THEN MatchWindow(a, b, alo, m.a, blo, m.b) ELSE <<>>)
         \o <<m>>
         \o (IF m.a + m.size < ahi /\ m.b + m.size < bhi
             THEN MatchWindow(a, b, m.a + m.size, ahi, m.b + m.size, bhi)
             ELSE <<>>)

MatchWindow(a, b, alo, ahi, blo, bhi) ==
    MatchAround(a, b, alo, ahi, blo, bhi, FindLongestMatch(a, b, alo, ahi, blo, bhi))

\* adjacent blocks are collapsed into one
RECURSIVE Collapse(_, _)
Collapse(blocks, acc) ==
    IF blocks = <<>> THEN acc
    ELSE LET m == Head(blocks)
             n == Len(acc)
         IN  IF n > 0 /\ acc[n].a + acc[n].size = m.a /\ acc[n].b + acc[n].size = m.b
             THEN Collapse(Tail(blocks),
                           [acc EXCEPT ![n].size = acc[n].size + m.size])
             ELSE Collapse(Tail(blocks), Append(acc, m))

\* get_matching_blocks(): the blocks, then the sentinel (len(a), len(b), 0)
GetMatchingBlocks(a, b) ==
    Append(Collapse(MatchWindow(a, b, 0, Len(a), 0, Len(b)), <<>>),
           [a |-> Len(a), b |-> Len(b), size |-> 0])

(***************************************************************************)
(* DocumentMerger.find_unique_sections                                     *)
(***************************************************************************)
\* the blocks the loop acts on: match.size > 0
PositiveBlocks(blocks) == SelectSeq(blocks, LAMBDA m : m.size > 0)

\* faulty variant of CommonLines: each block's lines are put in front of the
\* lines collected so far
RECURSIVE CommonLines_Reversed(_, _)
CommonLines_Reversed(lines1, blocks) ==
    IF blocks = <<>> THEN <<>>
    ELSE CommonLines_Reversed(lines1, Tail(blocks))
         \o Slice(lines1, Head(blocks).a, Head(blocks).a + Head(blocks).size)

\* common.extend(lines1[match.a : match.a + match.size]) for each block
RECURSIVE CommonLines(_, _)
CommonLines(lines1, blocks) ==
    IF blocks = <<>> THEN <<>>
    ELSE Slice(lines1, Head(blocks).a, Head(blocks).a + Head(blocks).size)
         \o CommonLines(lines1, Tail(blocks))

\* processed1: the indices range(match.a, match.a + match.size) of every block
Processed1(blocks) ==
    UNION {(blocks[k].a)..(blocks[k].a + blocks[k].size - 1) : k \in DOMAIN blocks}

\* faulty variant of Processed2: the ranges are taken from match.a
Processed2_FromA(blocks) == Processed1(blocks)

\* processed2: the indices range(match.b, match.b + match.size) of every block
Processed2(blocks) ==
    UNION {(blocks[k].b)..(blocks[k].b + blocks[k].size - 1) : k \in DOMAIN blocks}

\* the lines whose (0-based) index is not in processed, in order
UniqueLines(lines, processed) ==
    SelectPos(lines, {k \in DOMAIN lines : (k - 1) \notin processed}, 1)

\* the loops of find_unique_sections over the matching blocks
SectionsOf(lines1, lines2, blocks) ==
    [unique1 |-> UniqueLines(lines1, Processed1(blocks)),
     common |-> CommonLines(lines1, blocks),
     unique2 |-> UniqueLines(lines2, Processed2(blocks)),
     processed1 |-> Processed1(blocks),
     processed2 |-> Processed2(blocks)]

FindUniqueSections(lines1, lines2) ==
    SectionsOf(lines1, lines2, PositiveBlocks(GetMatchingBlocks(lines1, lines2)))

(***************************************************************************)
(* State                                                                   *)
(***************************************************************************)
VARIABLES
    fs,             \* the inbox tree: path -> content, for the files that exist
    report,         \* <inbox>/_analysis/duplicates.json
    analysed,       \* the inbox tree the report was produced from
    pc,             \* where the merger process is
    dry_run,        \* DocumentMerger.dry_run
    analysis_data,  \* DocumentMerger.analysis_data
    candidates,     \* process_similar_files: the filtered pairs
    pi,             \* process_similar_files: 1-based index of the next pair
    merged_files,   \* process_similar_files: names consumed by a merge
    ops,            \* file operations of the current merger run, in order
    out,            \* per-pair lines the current merger run printed
    orig,           \* the inbox tree when the current merger run started
    dryOut,         \* what the last completed dry run printed, and on which tree
    lines1,         \* find_unique_sections, find_common_sections: first argument
    lines2,         \* find_unique_sections, find_common_sections: second argument
    sections,       \* find_unique_sections: the returned tuple
    ppc,            \* whether find_unique_sections has returned
    inbox_exists,   \* inbox_path.exists()
    unreadable,     \* the files whose open() raises
    apc,            \* where the analyzer process is
    self_files,     \* InboxAnalyzer.files, in insertion order
    self_exact_duplicates, \* InboxAnalyzer.exact_duplicates, in insertion order
    self_similar_pairs, \* InboxAnalyzer.similar_pairs
    arg_hashes1,    \* calculate_line_overlap: first argument
    arg_hashes2,    \* calculate_line_overlap: second argument
    ret_overlap,    \* calculate_line_overlap: the returned pair
    opc,            \* whether calculate_line_overlap has returned
    arg_content1,   \* calculate_similarity: first argument, its characters
    arg_content2,   \* calculate_similarity: second argument, its characters
    ret_similarity, \* calculate_similarity: the returned ratio
    ret_blocks,     \* calculate_similarity: the matching blocks of its matcher
    spc,            \* whether calculate_similarity has returned
    agent_rules,    \* the rule files under .agent: place -> text of the order field
    adapter_dirs,   \* the tools whose .agent/adapters/<tool>/rules exists
    arg_tool_name,  \* collect_rules: its argument
    ret_rules,      \* collect_rules: the returned list
    rpc,            \* whether collect_rules has returned
    arg_files,      \* merge_two_files, merge_multiple_files: the file names given
    ret_merged,     \* merge_two_files, merge_multiple_files: the returned text
    mpc,            \* which of the two has returned, if any
    arg_min_section_lines, \* find_common_sections: third argument
    ret_common_sections,   \* find_common_sections: the returned list
    cpc,            \* whether find_common_sections has returned
    prev_report,    \* duplicates.json as the analyzer run before the last left it
    scan_order,     \* the order in which the last analyzer run met the files
    runs,           \* the number of analyzer runs made one after the other
    box,            \* the inbox tree of the cleaner and the organizer: path -> text
    folders,        \* the subfolders of that inbox that exist
    box_orig,       \* that tree when the current cleaner or organizer run started
    box_ops,        \* the file operations the current run made
    tool_dry_run,   \* InboxCleaner.dry_run, InboxOrganizer.dry_run
    live_runs,      \* the number of live runs completed
    kpc,            \* where the cleaner process is
    gpc             \* where the organizer process is

vars == <<fs, report, analysed, pc, dry_run, analysis_data, candidates, pi,
          merged_files, ops, out, orig, dryOut, lines1, lines2, sections, ppc,
          inbox_exists, unreadable, apc, self_files, self_exact_duplicates, self_similar_pairs,
          arg_hashes1, arg_hashes2, ret_overlap, opc,
          arg_content1, arg_content2, ret_similarity, ret_blocks, spc,
          agent_rules, adapter_dirs, arg_tool_name, ret_rules, rpc,
          arg_files, ret_merged, mpc,
          arg_min_section_lines, ret_common_sections, cpc,
          prev_report, scan_order, runs,
          box, folders, box_orig, box_ops, tool_dry_run, live_runs, kpc, gpc>>

mergerVars == <<fs, report, analysed, pc, dry_run, analysis_data, candidates, pi,
                merged_files, ops, out, orig, dryOut>>

partitionVars == <<lines1, lines2, sections, ppc>>

\* the analyzer's memory
analyzerVars == <<self_files, self_exact_duplicates, self_similar_pairs>>

\* the inbox directory as the processes find it
inboxVars == <<inbox_exists, unreadable>>

overlapVars == <<arg_hashes1, arg_hashes2, ret_overlap, opc>>

similarityVars == <<arg_content1, arg_content2, ret_similarity, ret_blocks, spc>>

mergeVars == <<arg_files, ret_merged, mpc>>

commonVars == <<arg_min_section_lines, ret_common_sections, cpc>>

\* the variables of the calls on drawn arguments
callVars == <<partitionVars, overlapVars, similarityVars, mergeVars>>

rulesVars == <<agent_rules, adapter_dirs, arg_tool_name, ret_rules, rpc>>

\* the variables of the other tools of scripts/
\* the analyzer run again and again
rerunVars == <<prev_report, scan_order, runs>>

\* the inbox of the cleaner and the organizer, and their processes
boxVars == <<box, folders, box_orig, box_ops, tool_dry_run, live_runs, kpc, gpc>>

toolVars == <<rulesVars, commonVars, rerunVars, boxVars>>

(***************************************************************************)
(* Names, paths and documents                                              *)
(***************************************************************************)
Name(stem, suffix) == [stem |-> stem, suffix |-> suffix]

\* the file name as text
NameStr(n) == n.stem \o n.suffix

\* self.inbox_path / filename
Root(n) == [dir |-> "", name |-> n]

Sub(n) == [dir |-> "sub", name |-> n]

\* the places a document of the inbox can be at
DocPaths ==
    {Root(Name("a", ".md")), Root(Name("b", ".txt")),
     Root(Name("a-merged", ".md")), Sub(Name("a", ".md"))}

\* the contents a document of the inbox can have
DocContents ==
    {<<"p", "q">>, <<"p", "r">>, <<"p", "q", "r">>, <<"s">>}

EmptyTree == [p \in {} |-> <<>>]

Exists(tree, p) == p \in DOMAIN tree

\* open(path, "w").write(content)
WriteFile(tree, p, content) ==
    [q \in DOMAIN tree \cup {p} |-> IF q = p THEN content ELSE tree[q]]

\* path.unlink()
Unlink(tree, p) == [q \in DOMAIN tree \ {p} |-> tree[q]]

\* every line of tree that some file holds
LinesOf(tree) == UNION {Range(tree[p]) : p \in DOMAIN tree}

(***************************************************************************)
(* Ratios                                                                  *)
(***************************************************************************)
Ratio(n, d) == [num |-> n, den |-> d]

\* r1 >= r2, both with positive denominators
RatioGeq(r1, r2) == r1.num * r2.den >= r2.num * r1.den

\* round(r, 3), in thousandths (ties to even)
Round3(r) ==
    LET q == (1000 * r.num) \div r.den
        rem == (1000 * r.num) % r.den
    IN  IF 2 * rem > r.den THEN q + 1
        ELSE IF 2 * rem < r.den THEN q
        ELSE IF q % 2 = 0 THEN q ELSE q + 1

(***************************************************************************)
(* InboxAnalyzer                                                           *)
(***************************************************************************)
\* similarity_threshold: 0.3
SimilarityThreshold == Ratio(3, 10)

\* hashlib.md5(x).hexdigest(), injective
Md5(x) == x

\* line.strip()
Strip(line) == IF line = " " THEN "" ELSE line

\* the characters of a content: every line, then its newline
Chars(content) == Flatten([k \in DOMAIN content |-> <<content[k], "\n">>])

\* the hash of each non-blank line, stripped
LineHashes(lines) ==
    LET kept == SelectSeq(lines, LAMBDA l : Strip(l) # "")
    IN  [k \in DOMAIN kept |-> Md5(Strip(kept[k]))]

\* the orders rglob can yield the files in
ScanOrders(tree) ==
    {o \in [1..Cardinality(DOMAIN tree) -> DOMAIN tree] :
        \A i, j \in DOMAIN o : i # j => o[i] # o[j]}

\* the FileInfo load_files builds for the file at p
FileInfoOf(tree, p) ==
    [path |-> p,
     name |-> p.name,
     size |-> Len(Chars(tree[p])),
     hash |-> Md5(tree[p]),
     content |-> tree[p],
     lines |-> tree[p],
     line_hashes |-> LineHashes(tree[p])]

\* faulty variant of ReadFails: there is no try/except, the exception leaves
\* load_files
ReadFails_Raises(st, p) == [st EXCEPT !.raised = TRUE]

\* "except Exception as e:" of load_files: a warning is printed, the file is
\* not added
ReadFails(st, p) == st

\* the loop of load_files over the scan: files that are not .md / .txt are
\* passed over, a file whose read raises goes to the except clause, the
\* others are added to self.files
RECURSIVE LoadLoop(_, _, _, _)
LoadLoop(st, tree, order, unread) ==
    IF order = <<>> \/ st.raised THEN st
    ELSE IF Head(order).name.suffix \notin {".md", ".txt"}
         THEN LoadLoop(st, tree, Tail(order), unread)
    ELSE IF Head(order) \in unread
         THEN LoadLoop(ReadFails(st, Head(order)), tree, Tail(order), unread)
    ELSE LoadLoop([st EXCEPT !.files = Append(@, FileInfoOf(tree, Head(order)))],
                  tree, Tail(order), unread)

\* load_files when every file can be read: one FileInfo per .md / .txt file,
\* in scan order
LoadFiles(tree, order) ==
    LoadLoop([files |-> <<>>, raised |-> FALSE], tree, order, {}).files

\* faulty variant of FindExactDuplicates: "len(files) >= 1"
FindExactDuplicates_AnyBucket(files) ==
    LET firsts == SelectSeq([k \in DOMAIN files |-> k],
                      LAMBDA k : \A j \in 1..(k - 1) : files[j].hash # files[k].hash)
        bucket(k) == SelectSeq(files, LAMBDA f : f.hash = files[k].hash)
        dup == SelectSeq(firsts, LAMBDA k : Len(bucket(k)) >= 1)
    IN  [g \in DOMAIN dup |->
            [hash |-> files[dup[g]].hash,
             files |-> [m \in DOMAIN bucket(dup[g]) |-> bucket(dup[g])[m].path]]]

\* find_exact_duplicates: the hash buckets with more than one file, in the
\* order their hash first occurs
FindExactDuplicates(files) ==
    LET firsts == SelectSeq([k \in DOMAIN files |-> k],
                      LAMBDA k : \A j \in 1..(k - 1) : files[j].hash # files[k].hash)
        bucket(k) == SelectSeq(files, LAMBDA f : f.hash = files[k].hash)
        dup == SelectSeq(firsts, LAMBDA k : Len(bucket(k)) > 1)
    IN  [g \in DOMAIN dup |->
            [hash |-> files[dup[g]].hash,
             files |-> [m \in DOMAIN bucket(dup[g]) |-> bucket(dup[g])[m].path]]]

\* the sum of the sizes of the matching blocks
RECURSIVE Matches(_)
Matches(blocks) ==
    IF blocks = <<>> THEN 0 ELSE Head(blocks).size + Matches(Tail(blocks))

\* faulty variant of CalculateRatio: the factor 2.0 is missing
CalculateRatio_NoDouble(matches, length) ==
    IF length = 0 THEN Ratio(1, 1) ELSE Ratio(matches, length)

\* 2.0 * matches / length, and 1.0 when length is 0
CalculateRatio(matches, length) ==
    IF length = 0 THEN Ratio(1, 1) ELSE Ratio(2 * matches, length)

\* SequenceMatcher(None, a, b).ratio() on two character sequences
SequenceMatcherRatio(a, b) ==
    CalculateRatio(Matches(GetMatchingBlocks(a, b)), Len(a) + Len(b))

\* calculate_similarity on two contents given as line lists
CalculateSimilarity(content1, content2) ==
    SequenceMatcherRatio(Chars(content1), Chars(content2))

\* faulty variant of CalculateLineOverlap: the lists are not turned into
\* sets before their sizes are taken
CalculateLineOverlap_Occurrences(line_hashes1, line_hashes2) ==
    LET common == Range(line_hashes1) \cap Range(line_hashes2)
        total == Max(Len(line_hashes1), Len(line_hashes2))
    IN  IF total = 0 THEN [ratio |-> Ratio(0, 1), common |-> 0]
        ELSE [ratio |-> Ratio(Cardinality(common), total),
              common |-> Cardinality(common)]

\* faulty variant of CalculateLineOverlap: total is len(set1)
CalculateLineOverlap_FirstTotal(line_hashes1, line_hashes2) ==
    LET set1 == Range(line_hashes1)
        common == set1 \cap Range(line_hashes2)
        total == Cardinality(set1)
    IN  IF total = 0 THEN [ratio |-> Ratio(0, 1), common |-> 0]
        ELSE [ratio |-> Ratio(Cardinality(common), total),
              common |-> Cardinality(common)]

\* calculate_line_overlap: (overlap_ratio, common_line_count)
CalculateLineOverlap(line_hashes1, line_hashes2) ==
    LET set1 == Range(line_hashes1)
        set2 == Range(line_hashes2)
        common == set1 \cap set2
        total == Max(Cardinality(set1), Cardinality(set2))
    IN  IF total = 0 THEN [ratio |-> Ratio(0, 1), common |-> 0]
        ELSE [ratio |-> Ratio(Cardinality(common), total),
              common |-> Cardinality(common)]

\* '\n'.join(lines)
RECURSIVE JoinLines(_)
JoinLines(lines) ==
    IF lines = <<>> THEN ""
    ELSE IF Len(lines) = 1 THEN lines[1]
    ELSE lines[1] \o "\n" \o JoinLines(Tail(lines))

\* faulty variant of CommonSection: the range is the one into the second list
CommonSection_RangeIntoB(lines_1, match) ==
    [start |-> match.b, end |-> match.b + match.size,
     content |-> JoinLines(Slice(lines_1, match.a, match.a + match.size))]

\* (match.a, match.a + match.size, section_content)
CommonSection(lines_1, match) ==
    [start |-> match.a, end |-> match.a + match.size,
     content |-> JoinLines(Slice(lines_1, match.a, match.a + match.size))]

\* find_common_sections(lines1, lines2, min_section_lines)
FindCommonSections(lines_1, lines_2, min_section_lines) ==
    LET kept == SelectSeq(GetMatchingBlocks(lines_1, lines_2),
                          LAMBDA match : match.size >= min_section_lines)
    IN  [k \in DOMAIN kept |-> CommonSection(lines_1, kept[k])]

\* faulty variant of IsSimilar: "and" in place of "or"
IsSimilar_Both(similarity, line_overlap) ==
    /\ RatioGeq(similarity, SimilarityThreshold)
    /\ RatioGeq(line_overlap, SimilarityThreshold)

\* the test of find_similar_files: either metric reaches the threshold
IsSimilar(similarity, line_overlap) ==
    \/ RatioGeq(similarity, SimilarityThreshold)
    \/ RatioGeq(line_overlap, SimilarityThreshold)

\* faulty variant of SortByOverlap: descending, but a match goes behind the
\* later matches of the same line overlap
RECURSIVE SortByOverlap_TiesReversed(_)
SortByOverlap_TiesReversed(ms) ==
    IF ms = <<>> THEN <<>>
    ELSE LET rest == SortByOverlap_TiesReversed(Tail(ms))
             m == Head(ms)
             before == SelectSeq(rest, LAMBDA x : RatioGeq(x.line_overlap, m.line_overlap))
             after == SelectSeq(rest, LAMBDA x : ~RatioGeq(x.line_overlap, m.line_overlap))
         IN  before \o <<m>> \o after

\* list.sort(key=line_overlap, reverse=True): stable, descending
RECURSIVE SortByOverlap(_)
SortByOverlap(ms) ==
    IF ms = <<>> THEN <<>>
    ELSE LET rest == SortByOverlap(Tail(ms))
             m == Head(ms)
             \* m goes before the first element it is not smaller than
             before == SelectSeq(rest, LAMBDA x : ~RatioGeq(m.line_overlap, x.line_overlap))
             after == SelectSeq(rest, LAMBDA x : RatioGeq(m.line_overlap, x.line_overlap))
         IN  before \o <<m>> \o after

\* the nested pair loop of find_similar_files: the matches in the order they
\* are appended
DiscoveredPairs(files) ==
    LET n == Len(files)
        pairsOf(i) == [d \in 1..(n - i) |-> <<i, i + d>>]
        allPairs == Flatten([i \in 1..n |-> pairsOf(i)])
        match(ij) ==
            LET f1 == files[ij[1]]
                f2 == files[ij[2]]
                lo == CalculateLineOverlap(f1.line_hashes, f2.line_hashes)
            IN  [file1 |-> f1.name,
                 file2 |-> f2.name,
                 similarity |-> CalculateSimilarity(f1.content, f2.content),
                 line_overlap |-> lo.ratio,
                 unique_common_lines |-> lo.common]
        scored == [k \in DOMAIN allPairs |-> match(allPairs[k])]
        differ == SelectSeq([k \in DOMAIN allPairs |-> k],
                      LAMBDA k : files[allPairs[k][1]].hash # files[allPairs[k][2]].hash)
        found == SelectSeq([k \in DOMAIN differ |-> scored[differ[k]]],
                     LAMBDA m : IsSimilar(m.similarity, m.line_overlap))
    IN  found

\* find_similar_files: the nested pair loop, then the sort (self.similar_pairs
\* is empty when run calls it)
FindSimilarFiles(files) == SortByOverlap(DiscoveredPairs(files))

NoReport == [exists |-> FALSE, total_files |-> 0,
             exact_duplicates |-> <<>>, similar_pairs |-> <<>>]

\* generate_report: files by base name, ratios rounded to 3 decimals
GenerateReport(files, exact_duplicates, similar_pairs) ==
    [exists |-> TRUE,
     total_files |-> Len(files),
     exact_duplicates |->
        [g \in DOMAIN exact_duplicates |->
            [hash |-> exact_duplicates[g].hash,
             files |-> [m \in DOMAIN exact_duplicates[g].files |->
                           exact_duplicates[g].files[m].name]]],
     similar_pairs |->
        [k \in DOMAIN similar_pairs |->
            [file1 |-> similar_pairs[k].file1,
             file2 |-> similar_pairs[k].file2,
             similarity |-> Round3(similar_pairs[k].similarity),
             line_overlap |-> Round3(similar_pairs[k].line_overlap),
             unique_common_lines |-> similar_pairs[k].unique_common_lines]]]

\* report_dir / 'duplicates-report.md'
ReportFile == [dir |-> "_analysis", name |-> Name("duplicates-report", ".md")]

\* generate_markdown_report, from what the run also puts in duplicates.json.
\* Left out: the hash and size of a group, the metrics of a pair (no document
\* holds such a line); Path.cwd() is "/"; a backquote is written as a quote.
MarkdownReport(rep) ==
    <<"# Inbox Duplicate Analysis Report", "",
      "**Analysis Date**: /",
      "**Total Files**: " \o ToString(rep.total_files),
      "**Similarity Threshold**: 30%", "",
      "---", "",
      "## Exact Duplicates", "">>
    \o (IF rep.exact_duplicates = <<>> THEN <<"*No exact duplicates found*", "">>
        ELSE Flatten([g \in DOMAIN rep.exact_duplicates |->
                <<"### Group " \o ToString(g), "", "**Files**:">>
                \o [m \in DOMAIN rep.exact_duplicates[g].files |->
                       "- '" \o NameStr(rep.exact_duplicates[g].files[m]) \o "'"]
                \o <<"", "**Recommendation**: Keep one, delete others", "">>]))
    \o <<"---", "",
         "## Similar Files (Partial Duplicates)", "",
         "*Sorted by line overlap (percentage of unique shared lines)*", "">>
    \o (IF rep.similar_pairs = <<>> THEN <<"*No similar files found*", "">>
        ELSE Flatten([k \in DOMAIN rep.similar_pairs |->
                <<"### Pair " \o ToString(k), "", "**Files**:",
                  "- '" \o NameStr(rep.similar_pairs[k].file1) \o "'",
                  "- '" \o NameStr(rep.similar_pairs[k].file2) \o "'", "",
                  "**Metrics**:", "">>]))
    \o <<"---", "",
         "## Next Steps", "",
         "1. Review exact duplicates and delete redundant copies",
         "2. Examine similar pairs for merge opportunities",
         "3. Use 'task docs:merge-duplicates' to interactively merge files">>

\* the files under the inbox as rglob finds them: the documents, and the
\* markdown report once a run has written it
InboxFiles(tree, rep) ==
    IF rep.exists THEN WriteFile(tree, ReportFile, MarkdownReport(rep)) ELSE tree

\* the orders rglob can yield the files in when the files scanned before are
\* still the same: those keep their order
LaterScanOrders(tree, before) ==
    {o \in ScanOrders(tree) :
        SelectSeq(o, LAMBDA p : p \in Range(before))
           = SelectSeq(before, LAMBDA p : p \in DOMAIN tree)}

\* find_exact_duplicates, find_similar_files and generate_report on the loaded files
ReportOn(files) ==
    GenerateReport(files, FindExactDuplicates(files), FindSimilarFiles(files))

\* InboxAnalyzer.run on tree, the scan yielding the files in the given order
AnalyzerReport(tree, order) == ReportOn(LoadFiles(tree, order))

(***************************************************************************)
(* DocumentMerger                                                          *)
(***************************************************************************)
\* --min-overlap, default 0.4, in thousandths
MinOverlap == 400

\* an entry of ops
Op(kind, name, content) == [op |-> kind, name |-> name, content |-> content]

\* a section of merge_two_files: header, blank line, the lines, the closing text
Section(header, lines, closing) ==
    IF lines = <<>> THEN <<>> ELSE <<header, "">> \o lines \o closing

\* faulty variant of MergedText: the first file's additions come before the
\* common content
MergedText_AdditionsFirst(file1, file2, u) ==
    <<"# Merged Document: " \o NameStr(file1) \o " + " \o NameStr(file2),
      "*This document combines content from multiple sources*", "",
      "---", "">>
    \o Section("## Additional Content from " \o NameStr(file1), u.unique1,
               <<"", "---", "">>)
    \o Section("## Common Content", u.common, <<"", "---", "">>)
    \o Section("## Additional Content from " \o NameStr(file2), u.unique2, <<"">>)

\* the text merge_two_files builds from the three line groups
MergedText(file1, file2, u) ==
    <<"# Merged Document: " \o NameStr(file1) \o " + " \o NameStr(file2),
      "*This document combines content from multiple sources*", "",
      "---", "">>
    \o Section("## Common Content", u.common, <<"", "---", "">>)
    \o Section("## Additional Content from " \o NameStr(file1), u.unique1,
               <<"", "---", "">>)
    \o Section("## Additional Content from " \o NameStr(file2), u.unique2, <<"">>)

\* merge_two_files, after both files are read: the lines of the merged text
MergeTwoFiles(file1, file2, lines_1, lines_2) ==
    MergedText(file1, file2, FindUniqueSections(lines_1, lines_2))

\* suggest_merge_name: the first file's stem, then "-merged.md"
SuggestMergeName(files) == Name(files[1].stem \o "-merged", ".md")

\* ', '.join(names)
RECURSIVE JoinNames(_)
JoinNames(names) ==
    IF names = <<>> THEN ""
    ELSE IF Len(names) = 1 THEN NameStr(names[1])
    ELSE NameStr(names[1]) \o ", " \o JoinNames(Tail(names))

\* the text one fold of merge_multiple_files builds: files[:i + 1] are the sources
\* so far (i is the 0-based index of the file folded in), u the three line groups
FoldedText(files, i, u) ==
    <<"# Merged Document: " \o JoinNames(SubSeq(files, 1, i + 1)),
      "*Combined from " \o ToString(i + 1) \o " sources*", "",
      "---", "">>
    \o Section("## Common Content", u.common, <<"", "---", "">>)
    \o Section("## Additional Content from Previous Merge", u.unique1,
               <<"", "---", "">>)
    \o Section("## Additional Content from " \o NameStr(files[i + 1]), u.unique2, <<"">>)

\* faulty variant of FoldNext: the running result is not folded in, the lines of
\* the next file alone are partitioned
FoldNext_DropsResult(result, files, i, lines_next) ==
    FoldedText(files, i, FindUniqueSections(<<>>, lines_next))

\* one iteration of the loop of merge_multiple_files
FoldNext(result, files, i, lines_next) ==
    FoldedText(files, i, FindUniqueSections(result, lines_next))

\* the loop of merge_multiple_files, from index i on
RECURSIVE FoldFrom(_, _, _, _)
FoldFrom(result, tree, files, i) ==
    IF i >= Len(files) THEN result
    ELSE FoldFrom(FoldNext(result, files, i, tree[Root(files[i + 1])]), tree, files, i + 1)

\* merge_multiple_files(files), every file of the list being there to read
MergeMultipleFiles(tree, files) ==
    IF Len(files) = 0 THEN <<>>
    ELSE IF Len(files) = 1 THEN tree[Root(files[1])]
    ELSE FoldFrom(MergeTwoFiles(files[1], files[2], tree[Root(files[1])],
                                tree[Root(files[2])]),
                  tree, files, 2)

\* the inner loop of process_exact_duplicates: unlink every listed file that exists
RECURSIVE DeleteEach(_, _)
DeleteEach(st, delete) ==
    IF delete = <<>> THEN st
    ELSE LET p == Root(Head(delete))
         IN  IF Exists(st.fs, p)
             THEN DeleteEach([fs |-> Unlink(st.fs, p),
                              ops |-> Append(st.ops, Op("unlink", Head(delete), <<>>))],
                             Tail(delete))
             ELSE DeleteEach(st, Tail(delete))

\* faulty variant of DeleteExtras: the dry-run test is missing
DeleteExtras_IgnoreDryRun(st, delete, dry) == DeleteEach(st, delete)

\* "if not self.dry_run:" around the deletions of one group
DeleteExtras(st, delete, dry) == IF dry THEN st ELSE DeleteEach(st, delete)

\* process_exact_duplicates: keep files[0], delete files[1:] of every group
RECURSIVE ExactDuplicatesLoop(_, _, _)
ExactDuplicatesLoop(st, groups, dry) ==
    IF groups = <<>> THEN st
    ELSE ExactDuplicatesLoop(DeleteExtras(st, Tail(Head(groups).files), dry),
                             Tail(groups), dry)

\* faulty variant of FilterCandidates: every pair of the report is a candidate
FilterCandidates_All(similar) == similar

\* candidates: the pairs with line_overlap >= min_overlap
FilterCandidates(similar) == SelectSeq(similar, LAMBDA pr : pr.line_overlap >= MinOverlap)

\* faulty variant of AlreadyMerged: "and" in place of "or"
AlreadyMerged_Both(file1, file2, merged) == file1 \in merged /\ file2 \in merged

\* "if file1 in merged_files or file2 in merged_files"
AlreadyMerged(file1, file2, merged) == file1 \in merged \/ file2 \in merged

\* a line of out
Printed(file1, file2, result) == [file1 |-> file1, file2 |-> file2, result |-> result]

\* merged_files.add(file1); merged_files.add(file2)
MarkMerged(merged, file1, file2) == merged \cup {file1, file2}

(***************************************************************************)
(* sync_rules.py: read_rules and collect_rules                             *)
(*  - A rule file is at a place [dir, name]; dir is "rules" for            *)
(*    .agent/rules and the tool's name for .agent/adapters/<tool>/rules.   *)
(*  - Of a rule file's text only the order field of its frontmatter is     *)
(*    kept: the digits after "order:", or "" when the field is absent.     *)
(*  - An entry of a rule list is [path, frontmatter]; the body is left out.*)
(***************************************************************************)
\* SOURCE_DIR
SOURCE_DIR == "rules"

\* the tools collect_rules is called for
Tools == {"cursor", "claude"}

\* the file names of the rule directories, in the order of their text
RuleNames == <<Name("a", ".md"), Name("b", ".md"), Name("n", ".txt")>>

\* the texts of the order field: absent, or digits
OrderTexts == {"", "5", "10", "1000"}

\* the places a rule file can be at
RulePlaces == {[dir |-> d, name |-> RuleNames[i]] :
                  d \in {SOURCE_DIR} \cup Tools, i \in DOMAIN RuleNames}

\* name1 < name2, as Python compares the two texts
NameLess(name1, name2) ==
    \E i, j \in DOMAIN RuleNames :
        /\ RuleNames[i] = name1
        /\ RuleNames[j] = name2
        /\ i < j

\* int(value) of a text of digits
IntOf(value) ==
    CASE value = "5" -> 5
      [] value = "10" -> 10
      [] value = "1000" -> 1000

\* parse_frontmatter, the order field: digits become a number, an absent field
\* leaves no key
ParseFrontmatter(text) ==
    IF text = "" THEN [has_order |-> FALSE, order |-> 0]
    ELSE [has_order |-> TRUE, order |-> IntOf(text)]

\* r[1].get("order", 999)
OrderOf(frontmatter) ==
    IF frontmatter.has_order THEN frontmatter.order ELSE 999

\* key(r1) < key(r2) for key = (order, file name)
KeyLess(r1, r2) ==
    \/ OrderOf(r1.frontmatter) < OrderOf(r2.frontmatter)
    \/ /\ OrderOf(r1.frontmatter) = OrderOf(r2.frontmatter)
       /\ NameLess(r1.path.name, r2.path.name)

\* one step of the stable sort: r goes before the first entry with a larger key
RECURSIVE InsertRule(_, _)
InsertRule(sorted, r) ==
    IF sorted = <<>> THEN <<r>>
    ELSE IF KeyLess(r, Head(sorted)) THEN <<r>> \o sorted
    ELSE <<Head(sorted)>> \o InsertRule(Tail(sorted), r)

\* rules.sort(key=lambda r: (r[1].get("order", 999), r[0].name))
RECURSIVE SortRules(_)
SortRules(rules) ==
    IF rules = <<>> THEN <<>>
    ELSE InsertRule(SortRules(SubSeq(rules, 1, Len(rules) - 1)), rules[Len(rules)])

\* sorted(source_dir.glob("*.md")): the .md files of the directory, by name
GlobMd(tree, dir) ==
    LET here == [i \in DOMAIN RuleNames |-> [dir |-> dir, name |-> RuleNames[i]]]
    IN  SelectSeq(here, LAMBDA p : p \in DOMAIN tree /\ p.name.suffix = ".md")

\* read_rules(source_dir); dir_exists is source_dir.exists()
ReadRules(tree, dir, dir_exists) ==
    IF ~dir_exists THEN <<>>
    ELSE LET found == GlobMd(tree, dir)
         IN  SortRules([k \in DOMAIN found |->
                           [path |-> found[k],
                            frontmatter |-> ParseFrontmatter(tree[found[k]])]])

\* faulty variant of PutRule: a name already present keeps its entry
PutRule_KeepFirst(d, r) ==
    IF \E k \in DOMAIN d : d[k].path.name = r.path.name THEN d ELSE Append(d, r)

\* canonical_rules[rule_file.name] = (rule_file, frontmatter, body): the entry
\* of that name is replaced where it is, a new name goes to the end
PutRule(d, r) ==
    IF \E k \in DOMAIN d : d[k].path.name = r.path.name
    THEN [k \in DOMAIN d |-> IF d[k].path.name = r.path.name THEN r ELSE d[k]]
    ELSE Append(d, r)

\* the loop over the adapter's rules
RECURSIVE PutRules(_, _)
PutRules(d, rules) ==
    IF rules = <<>> THEN d ELSE PutRules(PutRule(d, Head(rules)), Tail(rules))

\* collect_rules(tool_name); a directory that holds a file exists
CollectRules(tree, dirs, tool_name) ==
    LET canonical_rules ==
            PutRules(<<>>, ReadRules(tree, SOURCE_DIR,
                                     \E p \in DOMAIN tree : p.dir = SOURCE_DIR))
    IN  SortRules(IF tool_name \in dirs
                  THEN PutRules(canonical_rules, ReadRules(tree, tool_name, TRUE))
                  ELSE canonical_rules)

\* collect_rules is not called
RulesOff ==
    /\ agent_rules = EmptyTree
    /\ adapter_dirs = {}
    /\ arg_tool_name = "cursor"
    /\ ret_rules = <<>>
    /\ rpc = "off"

\* merge_two_files and merge_multiple_files are not called on drawn files
MergeOff ==
    /\ arg_files = <<>>
    /\ ret_merged = <<>>
    /\ mpc = "off"

\* find_common_sections is not called on drawn lists
CommonOff ==
    /\ arg_min_section_lines = 10
    /\ ret_common_sections = <<>>
    /\ cpc = "off"

\* the analyzer is not run again
RerunOff ==
    /\ prev_report = NoReport
    /\ scan_order = <<>>
    /\ runs = 0

\* neither the cleaner nor the organizer is run
BoxOff ==
    /\ box = EmptyTree
    /\ folders = {}
    /\ box_orig = EmptyTree
    /\ box_ops = {}
    /\ tool_dry_run = FALSE
    /\ live_runs = 0
    /\ kpc = "off"
    /\ gpc = "off"

\* the other calls on drawn arguments are not made
ToolsOff ==
    /\ RulesOff
    /\ CommonOff
    /\ RerunOff
    /\ BoxOff

\* the merger has not run and there is no report
MergerAtStart ==
    /\ report = NoReport
    /\ analysed = EmptyTree
    /\ pc = "idle"
    /\ dry_run = FALSE
    /\ analysis_data = NoReport
    /\ candidates = <<>>
    /\ pi = 1
    /\ merged_files = {}
    /\ ops = <<>>
    /\ out = <<>>
    /\ orig = EmptyTree
    /\ dryOut = [exists |-> FALSE, orig |-> EmptyTree, out |-> <<>>]

\* find_unique_sections is not called
PartitionOff ==
    /\ lines1 = <<>>
    /\ lines2 = <<>>
    /\ sections = FindUniqueSections(<<>>, <<>>)
    /\ ppc = "off"

\* the analyzer has not run
AnalyzerAtStart ==
    /\ apc = "idle"
    /\ self_files = <<>>
    /\ self_exact_duplicates = <<>>
    /\ self_similar_pairs = <<>>

\* calculate_line_overlap is not called
OverlapOff ==
    /\ arg_hashes1 = <<>>
    /\ arg_hashes2 = <<>>
    /\ ret_overlap = CalculateLineOverlap(<<>>, <<>>)
    /\ opc = "off"

\* calculate_similarity is not called
SimilarityOff ==
    /\ arg_content1 = <<>>
    /\ arg_content2 = <<>>
    /\ ret_similarity = Ratio(1, 1)
    /\ ret_blocks = <<>>
    /\ spc = "off"

Init ==
    /\ fs \in UNION {[D -> DocContents] :
                        D \in {S \in SUBSET DocPaths : Cardinality(S) <= MaxFiles}}
    /\ report = NoReport
    /\ analysed = EmptyTree
    /\ pc = "idle"
    /\ dry_run = FALSE
    /\ analysis_data = NoReport
    /\ candidates = <<>>
    /\ pi = 1
    /\ merged_files = {}
    /\ ops = <<>>
    /\ out = <<>>
    /\ orig = EmptyTree
    /\ dryOut = [exists |-> FALSE, orig |-> EmptyTree, out |-> <<>>]
    /\ PartitionOff
    /\ MergeOff
    /\ inbox_exists \in BOOLEAN
    /\ inbox_exists \/ fs = EmptyTree
    /\ unreadable = {}
    /\ AnalyzerAtStart
    /\ OverlapOff
    /\ SimilarityOff
    /\ ToolsOff

\* main: "if not inbox_path.exists(): return 1"
InboxMissing ==
    /\ apc = "idle"
    /\ ~inbox_exists
    /\ apc' = "exit1"
    /\ UNCHANGED <<mergerVars, callVars, analyzerVars, inboxVars, toolVars>>

\* InboxAnalyzer.run: load, find duplicates and similar files, write the report
Analyze ==
    /\ pc \in {"idle", "exit1"}
    /\ apc = "idle"
    /\ inbox_exists
    /\ ~report.exists
    /\ \E order \in ScanOrders(fs) : report' = AnalyzerReport(fs, order)
    /\ analysed' = fs
    /\ pc' = "idle"
    /\ apc' = "exit0"
    /\ UNCHANGED <<fs, dry_run, analysis_data, candidates, pi, merged_files, ops,
                   out, orig, dryOut>>
    /\ UNCHANGED <<callVars, analyzerVars, inboxVars, toolVars>>

\* faulty variant of LoadAnalysisMissing: sys.exit(1) is missing, run goes on
\* with no analysis data
LoadAnalysisMissing_NoExit ==
    /\ pc = "idle"
    /\ ~report.exists
    /\ analysis_data' = NoReport
    /\ pc' = "exact"
    /\ orig' = fs
    /\ UNCHANGED <<fs, report, analysed, dry_run, candidates, pi, merged_files, ops,
                   out, dryOut>>
    /\ UNCHANGED <<callVars, analyzerVars, inboxVars, apc, toolVars>>

\* DocumentMerger.run up to load_analysis, the report file missing: sys.exit(1)
LoadAnalysisMissing ==
    /\ pc = "idle"
    /\ ~report.exists
    /\ pc' = "exit1"
    /\ UNCHANGED <<fs, report, analysed, dry_run, analysis_data, candidates, pi,
                   merged_files, ops, out, orig, dryOut>>
    /\ UNCHANGED <<callVars, analyzerVars, inboxVars, apc, toolVars>>

\* DocumentMerger(inbox, report, dry_run).run up to load_analysis.  The merger is
\* run on a new report, or again after an earlier run: after a live run the
\* report no longer matches the inbox.
LoadAnalysis ==
    /\ pc \in {"idle", "done", "crashed"}
    /\ report.exists
    /\ \E dry \in BOOLEAN : dry_run' = dry
    /\ analysis_data' = report
    /\ pc' = "exact"
    /\ candidates' = <<>>
    /\ pi' = 1
    /\ merged_files' = {}
    /\ ops' = <<>>
    /\ out' = <<>>
    /\ orig' = fs
    /\ UNCHANGED <<fs, report, analysed, dryOut>>
    /\ UNCHANGED <<callVars, analyzerVars, inboxVars, apc, toolVars>>

\* process_exact_duplicates, then process_similar_files up to its loop
ProcessExactDuplicates ==
    /\ pc = "exact"
    /\ \E st \in {ExactDuplicatesLoop([fs |-> fs, ops |-> ops],
                                       analysis_data.exact_duplicates, dry_run)} :
          /\ fs' = st.fs
          /\ ops' = st.ops
    /\ candidates' = FilterCandidates(analysis_data.similar_pairs)
    /\ pi' = 1
    /\ merged_files' = {}
    /\ pc' = "similar"
    /\ UNCHANGED <<report, analysed, dry_run, analysis_data, out, orig, dryOut>>
    /\ UNCHANGED <<callVars, analyzerVars, inboxVars, apc, toolVars>>

\* one iteration of the loop of process_similar_files: the pair is skipped
SkipPair ==
    /\ pc = "similar"
    /\ pi <= Len(candidates)
    /\ AlreadyMerged(candidates[pi].file1, candidates[pi].file2, merged_files)
    /\ out' = Append(out, Printed(candidates[pi].file1, candidates[pi].file2, "skipped"))
    /\ pi' = pi + 1
    /\ UNCHANGED <<fs, report, analysed, pc, dry_run, analysis_data, candidates,
                   merged_files, ops, orig, dryOut>>
    /\ UNCHANGED <<callVars, analyzerVars, inboxVars, apc, toolVars>>

\* one iteration: read_file raises (the file is not there), the run ends with
\* the traceback
MergePairFails ==
    /\ pc = "similar"
    /\ pi <= Len(candidates)
    /\ LET file1 == candidates[pi].file1
           file2 == candidates[pi].file2
       IN  /\ ~AlreadyMerged(file1, file2, merged_files)
           /\ \/ /\ ~Exists(fs, Root(file1))
                 /\ ops' = Append(ops, Op("read_failed", file1, <<>>))
              \/ /\ Exists(fs, Root(file1))
                 /\ ~Exists(fs, Root(file2))
                 /\ ops' = ops \o <<Op("read", file1, <<>>),
                                    Op("read_failed", file2, <<>>)>>
    /\ pc' = "crashed"
    /\ UNCHANGED <<fs, report, analysed, dry_run, analysis_data, candidates, pi,
                   merged_files, out, orig, dryOut>>
    /\ UNCHANGED <<callVars, analyzerVars, inboxVars, apc, toolVars>>

\* the live part of one iteration: write the merged file, delete both sources
WriteAndDelete(st, file1, file2, merged_name, merged_content) ==
    DeleteEach([fs |-> WriteFile(st.fs, Root(merged_name), merged_content),
                ops |-> Append(st.ops, Op("write", merged_name, merged_content))],
               <<file1, file2>>)

\* one iteration: both files are read and merged; in a live run the merged file
\* is written, the two sources are deleted and marked as merged
MergePair ==
    /\ pc = "similar"
    /\ pi <= Len(candidates)
    /\ \E file1 \in {candidates[pi].file1}, file2 \in {candidates[pi].file2} :
          /\ ~AlreadyMerged(file1, file2, merged_files)
          /\ Exists(fs, Root(file1))
          /\ Exists(fs, Root(file2))
          /\ out' = Append(out, Printed(file1, file2, "merged"))
          /\ IF dry_run
             THEN /\ ops' = ops \o <<Op("read", file1, <<>>), Op("read", file2, <<>>)>>
                  /\ UNCHANGED <<fs, merged_files>>
             ELSE /\ \E st \in {WriteAndDelete(
                                  [fs |-> fs,
                                   ops |-> ops \o <<Op("read", file1, <<>>),
                                                    Op("read", file2, <<>>)>>],
                                  file1, file2, SuggestMergeName(<<file1, file2>>),
                                  MergeTwoFiles(file1, file2, fs[Root(file1)],
                                                fs[Root(file2)]))} :
                        /\ fs' = st.fs
                        /\ ops' = st.ops
                  /\ merged_files' = MarkMerged(merged_files, file1, file2)
    /\ pi' = pi + 1
    /\ UNCHANGED <<report, analysed, pc, dry_run, analysis_data, candidates, orig,
                   dryOut>>
    /\ UNCHANGED <<callVars, analyzerVars, inboxVars, apc, toolVars>>

\* the loop is over (or was never entered): "Merge Complete!"
MergeComplete ==
    /\ pc = "similar"
    /\ pi > Len(candidates)
    /\ pc' = "done"
    /\ dryOut' = IF dry_run THEN [exists |-> TRUE, orig |-> orig, out |-> out]
                 ELSE dryOut
    /\ UNCHANGED <<fs, report, analysed, dry_run, analysis_data, candidates, pi,
                   merged_files, ops, out, orig>>
    /\ UNCHANGED <<callVars, analyzerVars, inboxVars, apc, toolVars>>

Next ==
    \/ InboxMissing
    \/ Analyze
    \/ LoadAnalysisMissing
    \/ LoadAnalysis
    \/ ProcessExactDuplicates
    \/ SkipPair
    \/ MergePairFails
    \/ MergePair
    \/ MergeComplete

Spec == Init /\ [][Next]_vars

(***************************************************************************)
(* find_unique_sections on drawn line lists                                *)
(***************************************************************************)
PartitionInit ==
    /\ fs = EmptyTree
    /\ report = NoReport
    /\ analysed = EmptyTree
    /\ pc = "idle"
    /\ dry_run = FALSE
    /\ analysis_data = NoReport
    /\ candidates = <<>>
    /\ pi = 1
    /\ merged_files = {}
    /\ ops = <<>>
    /\ out = <<>>
    /\ orig = EmptyTree
    /\ dryOut = [exists |-> FALSE, orig |-> EmptyTree, out |-> <<>>]
    /\ lines1 \in SeqsUpTo(PartLines, MaxLen)
    /\ lines2 \in SeqsUpTo(PartLines, MaxLen)
    /\ sections = FindUniqueSections(<<>>, <<>>)
    /\ ppc = "call"
    /\ MergeOff
    /\ inbox_exists = FALSE
    /\ unreadable = {}
    /\ AnalyzerAtStart
    /\ OverlapOff
    /\ SimilarityOff
    /\ ToolsOff

\* unique1, common, unique2 = self.find_unique_sections(lines1, lines2)
CallFindUniqueSections ==
    /\ ppc = "call"
    /\ sections' = FindUniqueSections(lines1, lines2)
    /\ ppc' = "returned"
    /\ UNCHANGED <<lines1, lines2>>
    /\ UNCHANGED <<mergerVars, analyzerVars, inboxVars, apc, overlapVars, similarityVars,
                   mergeVars, toolVars>>

PartitionNext == CallFindUniqueSections

SpecPartition == PartitionInit /\ [][PartitionNext]_vars

(***************************************************************************)
(* InboxAnalyzer.run, method by method, on an inbox that may hold files    *)
(* that cannot be read and files that are not documents                    *)
(***************************************************************************)
\* a file of the inbox that is not a document
Picture == Root(Name("d", ".png"))

\* the places a file of the scanned inbox can be at
ScanPaths == DocPaths \cup {Picture}

\* the inbox holds documents, of which any may be unreadable, and possibly the
\* picture, which load_files never opens
AnalyzerInit ==
    /\ inbox_exists \in BOOLEAN
    /\ fs \in UNION {[D -> DocContents] :
                        D \in {S \in SUBSET ScanPaths : Cardinality(S) <= MaxFiles}}
    /\ Picture \in DOMAIN fs => fs[Picture] = <<"s">>
    /\ inbox_exists \/ fs = EmptyTree
    /\ unreadable \in SUBSET (DOMAIN fs \ {Picture})
    /\ MergerAtStart
    /\ PartitionOff
    /\ MergeOff
    /\ AnalyzerAtStart
    /\ OverlapOff
    /\ SimilarityOff
    /\ ToolsOff

\* main up to analyzer.run, then self.load_files()
CallLoadFiles ==
    /\ apc = "idle"
    /\ inbox_exists
    /\ \E order \in ScanOrders(fs) :
          \E st \in {LoadLoop([files |-> <<>>, raised |-> FALSE], fs, order, unreadable)} :
             /\ self_files' = st.files
             /\ apc' = IF st.raised THEN "raised" ELSE "exact"
    /\ UNCHANGED <<self_exact_duplicates, self_similar_pairs>>
    /\ UNCHANGED <<mergerVars, callVars, inboxVars, toolVars>>

\* self.find_exact_duplicates()
CallFindExactDuplicates ==
    /\ apc = "exact"
    /\ self_exact_duplicates' = FindExactDuplicates(self_files)
    /\ apc' = "similar"
    /\ UNCHANGED <<self_files, self_similar_pairs>>
    /\ UNCHANGED <<mergerVars, callVars, inboxVars, toolVars>>

\* self.find_similar_files()
CallFindSimilarFiles ==
    /\ apc = "similar"
    /\ self_similar_pairs' = FindSimilarFiles(self_files)
    /\ apc' = "report"
    /\ UNCHANGED <<self_files, self_exact_duplicates>>
    /\ UNCHANGED <<mergerVars, callVars, inboxVars, toolVars>>

\* self.generate_report(report_dir / 'duplicates.json'), the end of run, and
\* main's "return 0"
CallGenerateReport ==
    /\ apc = "report"
    /\ report' = GenerateReport(self_files, self_exact_duplicates, self_similar_pairs)
    /\ analysed' = fs
    /\ apc' = "exit0"
    /\ UNCHANGED <<fs, pc, dry_run, analysis_data, candidates, pi, merged_files, ops,
                   out, orig, dryOut>>
    /\ UNCHANGED <<callVars, analyzerVars, inboxVars, toolVars>>

AnalyzerNext ==
    \/ InboxMissing
    \/ CallLoadFiles
    \/ CallFindExactDuplicates
    \/ CallFindSimilarFiles
    \/ CallGenerateReport

SpecAnalyzer == AnalyzerInit /\ [][AnalyzerNext]_vars

(***************************************************************************)
(* calculate_line_overlap on drawn lists of line hashes                    *)
(***************************************************************************)
OverlapInit ==
    /\ fs = EmptyTree
    /\ inbox_exists = FALSE
    /\ unreadable = {}
    /\ MergerAtStart
    /\ PartitionOff
    /\ MergeOff
    /\ AnalyzerAtStart
    /\ arg_hashes1 \in SeqsUpTo(OverlapHashes, MaxLen)
    /\ arg_hashes2 \in SeqsUpTo(OverlapHashes, MaxLen)
    /\ ret_overlap = CalculateLineOverlap(<<>>, <<>>)
    /\ opc = "call"
    /\ SimilarityOff
    /\ ToolsOff

\* line_overlap, unique_common = self.calculate_line_overlap(..., ...)
CallCalculateLineOverlap ==
    /\ opc = "call"
    /\ ret_overlap' = CalculateLineOverlap(arg_hashes1, arg_hashes2)
    /\ opc' = "returned"
    /\ UNCHANGED <<arg_hashes1, arg_hashes2>>
    /\ UNCHANGED <<mergerVars, partitionVars, similarityVars, mergeVars, analyzerVars,
                   inboxVars, apc, toolVars>>

OverlapNext == CallCalculateLineOverlap

SpecOverlap == OverlapInit /\ [][OverlapNext]_vars

(***************************************************************************)
(* calculate_similarity on drawn texts                                     *)
(***************************************************************************)
SimilarityInit ==
    /\ fs = EmptyTree
    /\ inbox_exists = FALSE
    /\ unreadable = {}
    /\ MergerAtStart
    /\ PartitionOff
    /\ MergeOff
    /\ AnalyzerAtStart
    /\ OverlapOff
    /\ arg_content1 \in SeqsUpTo(SimilarityChars, MaxLen)
    /\ arg_content2 \in SeqsUpTo(SimilarityChars, MaxLen)
    /\ ret_similarity = Ratio(1, 1)
    /\ ret_blocks = <<>>
    /\ spc = "call"
    /\ ToolsOff

\* similarity = self.calculate_similarity(..., ...)
CallCalculateSimilarity ==
    /\ spc = "call"
    /\ \E blocks \in {GetMatchingBlocks(arg_content1, arg_content2)} :
          /\ ret_blocks' = blocks
          /\ ret_similarity' = CalculateRatio(Matches(blocks),
                                              Len(arg_content1) + Len(arg_content2))
    /\ spc' = "returned"
    /\ UNCHANGED <<arg_content1, arg_content2>>
    /\ UNCHANGED <<mergerVars, partitionVars, overlapVars, mergeVars, analyzerVars,
                   inboxVars, apc, toolVars>>

SimilarityNext == CallCalculateSimilarity

SpecSimilarity == SimilarityInit /\ [][SimilarityNext]_vars

(***************************************************************************)
(* collect_rules on drawn rule directories                                 *)
(***************************************************************************)
\* .agent holds at most MaxFiles files, in the canonical directory and in the
\* adapter directories of the tools; an adapter directory may exist and be empty
RulesInit ==
    /\ fs = EmptyTree
    /\ inbox_exists = FALSE
    /\ unreadable = {}
    /\ MergerAtStart
    /\ PartitionOff
    /\ MergeOff
    /\ AnalyzerAtStart
    /\ OverlapOff
    /\ SimilarityOff
    /\ agent_rules \in UNION {[D -> OrderTexts] :
                        D \in {S \in SUBSET RulePlaces : Cardinality(S) <= MaxFiles}}
    /\ adapter_dirs \in SUBSET Tools
    /\ \A p \in DOMAIN agent_rules : p.dir \in adapter_dirs \cup {SOURCE_DIR}
    /\ arg_tool_name \in Tools
    /\ ret_rules = <<>>
    /\ rpc = "call"
    /\ CommonOff
    /\ RerunOff
    /\ BoxOff

\* rules = collect_rules(tool_name)
CallCollectRules ==
    /\ rpc = "call"
    /\ ret_rules' = CollectRules(agent_rules, adapter_dirs, arg_tool_name)
    /\ rpc' = "returned"
    /\ UNCHANGED <<agent_rules, adapter_dirs, arg_tool_name>>
    /\ UNCHANGED <<mergerVars, callVars, analyzerVars, inboxVars, apc, commonVars,
                   rerunVars, boxVars>>

RulesNext == CallCollectRules

SpecRules == RulesInit /\ [][RulesNext]_vars

(***************************************************************************)
(* merge_two_files and merge_multiple_files on drawn files                 *)
(***************************************************************************)
\* lines of the files drawn for the two merge functions
MergeLines == {"p", "q"}

\* the lists of file names the two merge functions are called with
FileLists ==
    {<<>>, <<Name("a", ".md")>>,
     <<Name("a", ".md"), Name("b", ".txt")>>,
     <<Name("b", ".txt"), Name("a", ".md")>>,
     <<Name("a", ".md"), Name("b", ".txt"), Name("a-merged", ".md")>>}

\* the inbox holds the files of the list, each of up to MaxLen lines
MergeInit ==
    /\ arg_files \in FileLists
    /\ fs \in [{Root(n) : n \in Range(arg_files)} -> SeqsUpTo(MergeLines, MaxLen)]
    /\ ret_merged = <<>>
    /\ mpc = "call"
    /\ inbox_exists = TRUE
    /\ unreadable = {}
    /\ MergerAtStart
    /\ PartitionOff
    /\ AnalyzerAtStart
    /\ OverlapOff
    /\ SimilarityOff
    /\ ToolsOff

\* merged_content = self.merge_two_files(file1, file2)
CallMergeTwoFiles ==
    /\ mpc = "call"
    /\ Len(arg_files) = 2
    /\ ret_merged' = MergeTwoFiles(arg_files[1], arg_files[2], fs[Root(arg_files[1])],
                                   fs[Root(arg_files[2])])
    /\ mpc' = "two"
    /\ UNCHANGED arg_files
    /\ UNCHANGED <<mergerVars, partitionVars, overlapVars, similarityVars, analyzerVars,
                   inboxVars, apc, toolVars>>

\* self.merge_multiple_files(files)
CallMergeMultipleFiles ==
    /\ mpc = "call"
    /\ ret_merged' = MergeMultipleFiles(fs, arg_files)
    /\ mpc' = "multiple"
    /\ UNCHANGED arg_files
    /\ UNCHANGED <<mergerVars, partitionVars, overlapVars, similarityVars, analyzerVars,
                   inboxVars, apc, toolVars>>

MergeNext ==
    \/ CallMergeTwoFiles
    \/ CallMergeMultipleFiles

SpecMerge == MergeInit /\ [][MergeNext]_vars

(***************************************************************************)
(* find_common_sections on drawn line lists                                *)
(***************************************************************************)
\* the minimum is a positive number of lines (the one caller passes 10)
CommonInit ==
    /\ lines1 \in SeqsUpTo(PartLines, MaxLen)
    /\ lines2 \in SeqsUpTo(PartLines, MaxLen)
    /\ sections = FindUniqueSections(<<>>, <<>>)
    /\ ppc = "off"
    /\ arg_min_section_lines \in 1..MaxLen
    /\ ret_common_sections = <<>>
    /\ cpc = "call"
    /\ fs = EmptyTree
    /\ inbox_exists = FALSE
    /\ unreadable = {}
    /\ MergerAtStart
    /\ MergeOff
    /\ AnalyzerAtStart
    /\ OverlapOff
    /\ SimilarityOff
    /\ RulesOff
    /\ RerunOff
    /\ BoxOff

\* common_sections = self.find_common_sections(..., ..., min_section_lines=...)
CallFindCommonSections ==
    /\ cpc = "call"
    /\ ret_common_sections' = FindCommonSections(lines1, lines2, arg_min_section_lines)
    /\ cpc' = "returned"
    /\ UNCHANGED arg_min_section_lines
    /\ UNCHANGED <<mergerVars, callVars, analyzerVars, inboxVars, apc, rulesVars,
                   rerunVars, boxVars>>

CommonNext == CallFindCommonSections

SpecCommon == CommonInit /\ [][CommonNext]_vars

(***************************************************************************)
(* calculate_similarity on texts that reach 200 characters                 *)
(***************************************************************************)
\* the number of copies of a unit a long text is made of
LongCopies == 100

\* unit, n times
RECURSIVE Repeat(_, _)
Repeat(unit, n) == IF n = 0 THEN <<>> ELSE unit \o Repeat(unit, n - 1)

\* the first text is short; the second is a unit of one or two characters, once
\* or LongCopies times
LongInit ==
    /\ arg_content1 \in SeqsUpTo(SimilarityChars, MaxLen)
    /\ arg_content2 \in {Repeat(unit, n) :
                            unit \in SeqsUpTo(SimilarityChars, 2) \ {<<>>},
                            n \in {1, LongCopies}}
    /\ ret_similarity = Ratio(1, 1)
    /\ ret_blocks = <<>>
    /\ spc = "call"
    /\ fs = EmptyTree
    /\ inbox_exists = FALSE
    /\ unreadable = {}
    /\ MergerAtStart
    /\ PartitionOff
    /\ MergeOff
    /\ AnalyzerAtStart
    /\ OverlapOff
    /\ ToolsOff

LongNext == CallCalculateSimilarity

SpecLong == LongInit /\ [][LongNext]_vars

(***************************************************************************)
(* The analyzer run several times in a row on an inbox nobody else touches *)
(***************************************************************************)
\* the largest number of runs in a row
MaxRuns == 2

RerunInit ==
    /\ fs \in UNION {[D -> DocContents] :
                        D \in {S \in SUBSET DocPaths : Cardinality(S) <= MaxFiles}}
    /\ inbox_exists = TRUE
    /\ unreadable = {}
    /\ MergerAtStart
    /\ PartitionOff
    /\ MergeOff
    /\ AnalyzerAtStart
    /\ OverlapOff
    /\ SimilarityOff
    /\ RulesOff
    /\ CommonOff
    /\ RerunOff
    /\ BoxOff

\* main and InboxAnalyzer.run as one step, on what the inbox holds by now:
\* load_files, the two searches, then both reports written under _analysis
AnalyzerRun ==
    /\ apc \in {"idle", "exit0"}
    /\ inbox_exists
    /\ runs < MaxRuns
    /\ \E tree \in {InboxFiles(fs, report)} :
          \E order \in LaterScanOrders(tree, scan_order) :
             \E files \in {LoadFiles(tree, order)} :
                \E exact_duplicates \in {FindExactDuplicates(files)},
                   similar_pairs \in {FindSimilarFiles(files)} :
                   /\ self_files' = files
                   /\ self_exact_duplicates' = exact_duplicates
                   /\ self_similar_pairs' = similar_pairs
                   /\ report' = GenerateReport(files, exact_duplicates, similar_pairs)
                   /\ scan_order' = order
    /\ prev_report' = report
    /\ analysed' = fs
    /\ runs' = runs + 1
    /\ apc' = "exit0"
    /\ UNCHANGED <<fs, pc, dry_run, analysis_data, candidates, pi, merged_files, ops,
                   out, orig, dryOut>>
    /\ UNCHANGED <<callVars, inboxVars, rulesVars, commonVars, boxVars>>

RerunNext == AnalyzerRun

SpecRerun == RerunInit /\ [][RerunNext]_vars

(***************************************************************************)
(* Texts: file names and file contents of the cleaner and the organizer    *)
(***************************************************************************)
\* x in f
Contains(f, x) ==
    \E i \in 1..(Len(f) - Len(x) + 1) : SubSeq(f, i, i + Len(x) - 1) = x

\* c.lower(), for one character
LowerChar(c) ==
    CASE c = "A" -> "a" [] c = "B" -> "b" [] c = "C" -> "c" [] c = "D" -> "d"
      [] c = "E" -> "e" [] c = "F" -> "f" [] c = "G" -> "g" [] c = "H" -> "h"
      [] c = "I" -> "i" [] c = "J" -> "j" [] c = "K" -> "k" [] c = "L" -> "l"
      [] c = "M" -> "m" [] c = "N" -> "n" [] c = "O" -> "o" [] c = "P" -> "p"
      [] c = "Q" -> "q" [] c = "R" -> "r" [] c = "S" -> "s" [] c = "T" -> "t"
      [] c = "U" -> "u" [] c = "V" -> "v" [] c = "W" -> "w" [] c = "X" -> "x"
      [] c = "Y" -> "y" [] c = "Z" -> "z" [] OTHER -> c

\* f.lower()
RECURSIVE Lower(_)
Lower(f) ==
    IF Len(f) = 0 THEN ""
    ELSE LowerChar(SubSeq(f, 1, 1)) \o Lower(SubSeq(f, 2, Len(f)))

\* s.replace(old, new), old not empty
RECURSIVE Replace(_, _, _)
Replace(s, old, new) ==
    IF Len(s) < Len(old) THEN s
    ELSE IF SubSeq(s, 1, Len(old)) = old
         THEN new \o Replace(SubSeq(s, Len(old) + 1, Len(s)), old, new)
         ELSE SubSeq(s, 1, 1) \o Replace(SubSeq(s, 2, Len(s)), old, new)

\* Path(name).suffix: from the last dot on, unless that dot opens or ends the name
PathSuffix(name) ==
    LET dots == {i \in 2..(Len(name) - 1) : SubSeq(name, i, i) = "."}
        last == CHOOSE i \in dots : \A j \in 1..Len(name) : SubSeq(name, j, j) = "." => j <= i
    IN  IF Len(name) = 0 \/ SubSeq(name, Len(name), Len(name)) = "." \/ dots = {}
        THEN ""
        ELSE SubSeq(name, last, Len(name))

\* Path(name).stem
PathStem(name) == SubSeq(name, 1, Len(name) - Len(PathSuffix(name)))

(***************************************************************************)
(* The cleaner: scripts/docs/cleanup_inbox.py                              *)
(***************************************************************************)
\* self.subfolders, in insertion order
subfolders ==
    <<[folder |-> "conversation-exports",
       description |-> "Raw conversation exports and dated files"],
      [folder |-> "discussions",
       description |-> "Discussion threads and architectural conversations"],
      [folder |-> "implementations",
       description |-> "Implementation-specific documentation"],
      [folder |-> "refactoring",
       description |-> "Refactoring plans and architecture changes"],
      [folder |-> "integrations",
       description |-> "Tool and system integration documentation"],
      [folder |-> "planning",
       description |-> "Planning documents and research findings"],
      [folder |-> "maintenance",
       description |-> "Maintenance tasks and bug fixes"]>>

\* self.files_to_delete
files_to_delete ==
    {"Implement Spherical Geometry.md",
     "Refactor Fantasim-World Architecture 001.md",
     "Fantasim-world Refactoring.md",
     "discussion-001.md",
     "discussion-003.md"}

\* self.files_to_rename, in insertion order
files_to_rename ==
    <<[old_name |-> "discussion.md",
       new_name |-> "topology-first-architecture-discussion.md"],
      [old_name |-> "discussion-002.md",
       new_name |-> "spec-kit-workflow-discussion.md"],
      [old_name |-> "discussion-004.md",
       new_name |-> "geometry-libraries-comparison.md"]>>

\* self.files_to_merge, in insertion order
files_to_merge ==
    <<[target_name |-> "RFC-Alignment-and-GPlates-Integration.md",
       source_files |-> <<"Fantasim-World RFC Alignment.md",
                          "Aligning FantaSim-World with GPlates.md">>]>>

\* self.categorization_rules[category](f)
CleanerRule(category, f) ==
    LET startswith(x) == Len(x) <= Len(f) /\ SubSeq(f, 1, Len(x)) = x
        endswith(x) == Len(x) <= Len(f) /\ SubSeq(f, Len(f) - Len(x) + 1, Len(f)) = x
        any(xs, text) == \E x \in xs : Contains(text, x)
    IN  CASE category = "conversation-exports" ->
                startswith("2026-") /\ endswith(".txt")
          [] category = "discussions" ->
                Contains(Lower(f), "discussion") /\ endswith(".md")
          [] category = "implementations" ->
                any({"Implement", "Implementing"}, f) /\ endswith(".md")
          [] category = "refactoring" ->
                Contains(f, "Refactor") /\ endswith(".md")
          [] category = "integrations" ->
                any({"Integrate", "OpenCode", "UI_UX"}, f) /\ endswith(".md")
          [] category = "planning" ->
                any({"research", "plan", "rfc-alignment", "gplates-integration"}, Lower(f))
          [] category = "maintenance" ->
                any({"Merge", "Fixing", "Clean"}, f) /\ endswith(".md")

\* categorize_file: the first category whose rule takes the name; "" stands for None
categorize_file(filename) ==
    LET hits == {i \in DOMAIN subfolders : CleanerRule(subfolders[i].folder, filename)}
    IN  IF hits = {} THEN ""
        ELSE subfolders[CHOOSE i \in hits : \A j \in hits : i <= j].folder

\* self.inbox_path / folder / name
In(folder, name) == [dir |-> folder, name |-> name]

\* merge_files: the text written to the target
MergedContent(tree, target_name, source_files) ==
    LET RECURSIVE sources(_)
        sources(k) ==
            IF k > Len(source_files) THEN ""
            ELSE (IF Exists(tree, Root(source_files[k]))
                  THEN "## Source: " \o source_files[k] \o "\n\n"
                       \o tree[Root(source_files[k])] \o "\n\n---\n\n"
                  ELSE "") \o sources(k + 1)
    IN  "# " \o Replace(Replace(target_name, ".md", ""), "-", " ") \o "\n\n"
        \o "*This document consolidates multiple related discussions.*\n\n"
        \o "---\n\n" \o sources(1)

\* merge_files: one target of files_to_merge; st is the inbox tree and the
\* operations made on it
MergeOne(st, entry, dry) ==
    IF Exists(st.tree, Root(entry.target_name)) \/ dry THEN st
    ELSE LET merged_content == MergedContent(st.tree, entry.target_name, entry.source_files)
             found == {Root(entry.source_files[k]) : k \in DOMAIN entry.source_files}
                         \cap DOMAIN st.tree
             written == WriteFile(st.tree, Root(entry.target_name), merged_content)
         IN  [tree |-> [p \in DOMAIN written \ found |-> written[p]],
              ops |-> st.ops \cup {Op("write", Root(entry.target_name), merged_content)}
                             \cup {Op("unlink", p, st.tree[p]) : p \in found}]

\* old_path.rename(new_path), shutil.move(old_path, new_path): new_path does not exist
Move(st, old_path, new_path) ==
    [tree |-> [p \in (DOMAIN st.tree \ {old_path}) \cup {new_path} |->
                  IF p = new_path THEN st.tree[old_path] ELSE st.tree[p]],
     ops |-> st.ops \cup {Op("move", old_path, st.tree[old_path])}]

\* rename_files: the entries of files_to_rename from the k-th on
RECURSIVE RenameFrom(_, _, _)
RenameFrom(st, k, dry) ==
    IF k > Len(files_to_rename) THEN st
    ELSE LET old_path == Root(files_to_rename[k].old_name)
             new_path == Root(files_to_rename[k].new_name)
         IN  RenameFrom(IF Exists(st.tree, old_path) /\ ~Exists(st.tree, new_path) /\ ~dry
                        THEN Move(st, old_path, new_path)
                        ELSE st,
                        k + 1, dry)

\* organize_files: the files of the list from the k-th on
RECURSIVE OrganizeFrom(_, _, _, _)
OrganizeFrom(st, files, k, dry) ==
    IF k > Len(files) THEN st
    ELSE LET filename == files[k].name
             category == categorize_file(filename)
         IN  OrganizeFrom(IF category # "" /\ ~Exists(st.tree, In(category, filename)) /\ ~dry
                          THEN Move(st, files[k], In(category, filename))
                          ELSE st,
                          files, k + 1, dry)

\* generate_readme: the text of README.md; ''' is written for its three backquotes
ReadmeContent(tree, dirs) ==
    LET file_count(folder) ==
            IF folder \in dirs THEN Cardinality({p \in DOMAIN tree : p.dir = folder}) ELSE 0
        RECURSIVE listing(_)
        listing(k) ==
            IF k > Len(subfolders) THEN ""
            ELSE "- **" \o subfolders[k].folder \o "/** ("
                 \o ToString(file_count(subfolders[k].folder)) \o " files): "
                 \o subfolders[k].description \o "\n" \o listing(k + 1)
    IN  "# Documentation Inbox\n\n"
        \o "This directory contains work-in-progress documentation, conversation exports, "
        \o "and planning materials that haven't been formalized into the main documentation.\n\n"
        \o "## Folder Structure\n\n"
        \o listing(1)
        \o "\n## Maintenance\n\n"
        \o "To reorganize and cleanup this directory, run:\n\n"
        \o "'''bash\ntask docs:cleanup-inbox\n'''\n\n"
        \o "Or manually:\n\n"
        \o "'''bash\npython scripts/cleanup_inbox.py\n'''\n"

\* the names a file of the drawn inbox can have
CleanerNames ==
    {"discussion-001.md", "discussion.md",
     "Fantasim-World RFC Alignment.md", "Aligning FantaSim-World with GPlates.md",
     "RFC-Alignment-and-GPlates-Integration.md", "notes.md", "2026-01-01.txt"}

\* the places a file of the drawn inbox can be at
CleanerPlaces ==
    {Root(n) : n \in CleanerNames}
        \cup {In("planning", "RFC-Alignment-and-GPlates-Integration.md"),
              In("discussions", "topology-first-architecture-discussion.md"),
              In("discussions", "discussion.md")}

\* the texts a file of the drawn inbox can hold
BoxTexts == {"x\n", "y\n"}

\* the folders of self.subfolders
Subfolders == {subfolders[k].folder : k \in DOMAIN subfolders}

\* the trees over the given places, and with each the subfolders that exist
DrawnBox(places) ==
    /\ box \in UNION {[D -> BoxTexts] :
                        D \in {S \in SUBSET places : Cardinality(S) <= MaxFiles}}
    /\ inbox_exists \/ box = EmptyTree
    /\ folders \in {{p.dir : p \in DOMAIN box} \ {""}, Subfolders}
    /\ inbox_exists \/ folders = {}
    /\ box_orig = box
    /\ box_ops = {}
    /\ tool_dry_run = FALSE
    /\ live_runs = 0

CleanerInit ==
    /\ fs = EmptyTree
    /\ inbox_exists \in BOOLEAN
    /\ unreadable = {}
    /\ MergerAtStart
    /\ PartitionOff
    /\ MergeOff
    /\ AnalyzerAtStart
    /\ OverlapOff
    /\ SimilarityOff
    /\ RulesOff
    /\ CommonOff
    /\ RerunOff
    /\ DrawnBox(CleanerPlaces)
    /\ kpc = "idle"
    /\ gpc = "off"

\* what no step of the cleaner or the organizer changes
boxRest == <<mergerVars, callVars, analyzerVars, inboxVars, apc, rulesVars, commonVars,
             rerunVars>>

\* main, InboxCleaner.__init__ and run up to its first step
CleanerRun ==
    /\ kpc \in {"idle", "done"}
    /\ live_runs < MaxRuns
    /\ tool_dry_run' \in BOOLEAN
    /\ box_orig' = box
    /\ box_ops' = {}
    /\ kpc' = IF inbox_exists THEN "run" ELSE "exit1"
    /\ UNCHANGED <<box, folders, live_runs, gpc, boxRest>>

\* create_subfolders
CreateSubfolders ==
    /\ kpc = "run"
    /\ folders' = IF tool_dry_run THEN folders ELSE folders \cup Subfolders
    /\ kpc' = "created"
    /\ UNCHANGED <<box, box_orig, box_ops, tool_dry_run, live_runs, gpc, boxRest>>

\* delete_duplicates
DeleteDuplicates ==
    /\ kpc = "created"
    /\ \E found \in {{Root(f) : f \in files_to_delete} \cap DOMAIN box} :
          IF tool_dry_run THEN UNCHANGED <<box, box_ops>>
          ELSE /\ box' = [p \in DOMAIN box \ found |-> box[p]]
               /\ box_ops' = box_ops \cup {Op("unlink", p, box[p]) : p \in found}
    /\ kpc' = "deleted"
    /\ UNCHANGED <<folders, box_orig, tool_dry_run, live_runs, gpc, boxRest>>

\* merge_files; files_to_merge holds one target
MergeFiles ==
    /\ kpc = "deleted"
    /\ \E st \in {MergeOne([tree |-> box, ops |-> box_ops], files_to_merge[1], tool_dry_run)} :
          /\ box' = st.tree
          /\ box_ops' = st.ops
    /\ kpc' = "merged"
    /\ UNCHANGED <<folders, box_orig, tool_dry_run, live_runs, gpc, boxRest>>

\* rename_files
RenameFiles ==
    /\ kpc = "merged"
    /\ \E st \in {RenameFrom([tree |-> box, ops |-> box_ops], 1, tool_dry_run)} :
          /\ box' = st.tree
          /\ box_ops' = st.ops
    /\ kpc' = "renamed"
    /\ UNCHANGED <<folders, box_orig, tool_dry_run, live_runs, gpc, boxRest>>

\* organize_files, on the root files in the order iterdir yields them
OrganizeFiles ==
    /\ kpc = "renamed"
    /\ \E files \in ScanOrders([p \in {q \in DOMAIN box : q.dir = ""} |-> box[p]]) :
          \E st \in {OrganizeFrom([tree |-> box, ops |-> box_ops], files, 1, tool_dry_run)} :
             /\ box' = st.tree
             /\ box_ops' = st.ops
    /\ kpc' = "organized"
    /\ UNCHANGED <<folders, box_orig, tool_dry_run, live_runs, gpc, boxRest>>

\* generate_readme and the end of run
GenerateReadme ==
    /\ kpc = "organized"
    /\ \E content \in {ReadmeContent(box, folders)} :
          IF tool_dry_run THEN UNCHANGED <<box, box_ops, live_runs>>
          ELSE /\ box' = WriteFile(box, Root("README.md"), content)
               /\ box_ops' = box_ops \cup {Op("write", Root("README.md"), content)}
               /\ live_runs' = live_runs + 1
    /\ kpc' = "done"
    /\ UNCHANGED <<folders, box_orig, tool_dry_run, gpc, boxRest>>

CleanerNext ==
    \/ CleanerRun
    \/ CreateSubfolders
    \/ DeleteDuplicates
    \/ MergeFiles
    \/ RenameFiles
    \/ OrganizeFiles
    \/ GenerateReadme

SpecCleaner == CleanerInit /\ [][CleanerNext]_vars

(***************************************************************************)
(* The organizer: scripts/docs/organize_inbox.py                           *)
(***************************************************************************)
\* self.subfolders of the organizer, in insertion order
organizer_subfolders ==
    <<[folder |-> "conversation-exports",
       description |-> "Raw conversation exports and dated files"],
      [folder |-> "discussions",
       description |-> "Discussion threads and architectural conversations"],
      [folder |-> "implementations",
       description |-> "Implementation-specific documentation and merged specs"],
      [folder |-> "refactoring",
       description |-> "Refactoring plans and architecture changes"],
      [folder |-> "integrations",
       description |-> "Tool and system integration documentation"],
      [folder |-> "planning",
       description |-> "Planning documents and research findings"],
      [folder |-> "maintenance",
       description |-> "Maintenance tasks and bug fixes"]>>

\* self.categorization_rules[folder](f) of the organizer
OrganizerRule(folder, f) ==
    LET startswith(x) == Len(x) <= Len(f) /\ SubSeq(f, 1, Len(x)) = x
        endswith(x) == Len(x) <= Len(f) /\ SubSeq(f, Len(f) - Len(x) + 1, Len(f)) = x
    IN  \E lower \in {Lower(f)} :
           LET any(xs) == \E x \in xs : Contains(lower, x)
           IN  CASE folder = "conversation-exports" ->
                       (startswith("2026-") /\ endswith(".txt")) \/ any({"caveat"})
                 [] folder = "discussions" -> any({"discussion"})
                 [] folder = "implementations" ->
                       \/ any({"implement", "rfc-v2", "contracts", "dataset"})
                       \/ (any({"merged"}) /\ (any({"implement"}) \/ any({"rfc"})))
                 [] folder = "refactoring" -> any({"refactor"})
                 [] folder = "integrations" -> any({"integrate", "opencode", "ui_ux"})
                 [] folder = "planning" -> any({"research", "plan", "alignment", "gplates"})
                 [] folder = "maintenance" ->
                       any({"merge", "fixing", "clean", "unload", "sync", "sync-"})

\* organize_files: target_folder, the first folder whose rule takes the name;
\* "" stands for None
target_folder(filename) ==
    LET hits == {i \in DOMAIN organizer_subfolders :
                    OrganizerRule(organizer_subfolders[i].folder, filename)}
    IN  IF hits = {} THEN ""
        ELSE organizer_subfolders[CHOOSE i \in hits : \A j \in hits : i <= j].folder

\* organize_files: dest_path, with every file going to <folder>/<name>
dest_path_Overwrites(tree, folder, filename) == In(folder, filename)

\* organize_files: dest_path, the first free <base>_<counter><ext> when
\* <folder>/<name> exists
dest_path(tree, folder, filename) ==
    LET numbered(counter) ==
            In(folder, PathStem(filename) \o "_" \o ToString(counter) \o PathSuffix(filename))
        RECURSIVE free(_)
        free(counter) ==
            IF Exists(tree, numbered(counter)) THEN free(counter + 1) ELSE numbered(counter)
    IN  IF Exists(tree, In(folder, filename)) THEN free(1) ELSE In(folder, filename)

\* organize_files: the files of the list from the k-th on
RECURSIVE OrganizerFrom(_, _, _, _)
OrganizerFrom(st, files, k, dry) ==
    IF k > Len(files) THEN st
    ELSE LET filename == files[k].name
             folder == target_folder(filename)
         IN  OrganizerFrom(IF folder # "" /\ ~dry
                           THEN Move(st, files[k], dest_path(st.tree, folder, filename))
                           ELSE st,
                           files, k + 1, dry)

\* generate_readme of the organizer: the text of README.md; ' is written for
\* its backquotes
OrganizerReadme ==
    LET RECURSIVE listing(_)
        listing(k) ==
            IF k > Len(organizer_subfolders) THEN ""
            ELSE "- **" \o organizer_subfolders[k].folder \o "/**: "
                 \o organizer_subfolders[k].description \o "\n" \o listing(k + 1)
    IN  "# Documentation Inbox\n\n"
        \o "This folder acts as a staging area for new documentation, chat exports, and technical discussions.\n"
        \o "Files are organized into categories periodically using automated scripts.\n\n"
        \o "## Folder Structure\n\n"
        \o listing(1)
        \o "\n## Maintenance Tools\n\n"
        \o "- 'task docs:analyze-inbox': Analyzes files for duplicates and similarity.\n"
        \o "- 'task docs:merge-duplicates': Intelligently merges overlapping content and removes redundancy.\n"
        \o "- 'task docs:organize-inbox': Organizes files into the folders defined above.\n"

\* the places a file of the inbox drawn for the organizer can be at
OrganizerPlaces ==
    {Root("plan.md"), Root("plan_1.md"), Root("notes.md"), Root("README.md"),
     Root("Merged-RFC.md"), Root("2026-01-01.txt"),
     In("planning", "plan.md"), In("planning", "plan_1.md"), In("planning", "plan_2.md"),
     In("implementations", "Merged-RFC.md")}

OrganizerInit ==
    /\ fs = EmptyTree
    /\ inbox_exists \in BOOLEAN
    /\ unreadable = {}
    /\ MergerAtStart
    /\ PartitionOff
    /\ MergeOff
    /\ AnalyzerAtStart
    /\ OverlapOff
    /\ SimilarityOff
    /\ RulesOff
    /\ CommonOff
    /\ RerunOff
    /\ DrawnBox(OrganizerPlaces)
    /\ kpc = "off"
    /\ gpc = "idle"

\* main, InboxOrganizer.__init__ and run up to its first step
OrganizerRun ==
    /\ gpc \in {"idle", "done"}
    /\ live_runs < MaxRuns
    /\ tool_dry_run' \in BOOLEAN
    /\ box_orig' = box
    /\ box_ops' = {}
    /\ gpc' = IF inbox_exists THEN "run" ELSE "exit1"
    /\ UNCHANGED <<box, folders, live_runs, kpc, boxRest>>

\* create_subfolders of the organizer
OrganizerCreateSubfolders ==
    /\ gpc = "run"
    /\ folders' = IF tool_dry_run THEN folders
                  ELSE folders \cup {organizer_subfolders[k].folder :
                                        k \in DOMAIN organizer_subfolders}
    /\ gpc' = "created"
    /\ UNCHANGED <<box, box_orig, box_ops, tool_dry_run, live_runs, kpc, boxRest>>

\* organize_files of the organizer, on the root files but README.md and
\* .gitignore, in the order iterdir yields them
OrganizerOrganizeFiles ==
    /\ gpc = "created"
    /\ \E files \in ScanOrders([p \in {q \in DOMAIN box :
                                         /\ q.dir = ""
                                         /\ q.name # "README.md"
                                         /\ q.name # ".gitignore"} |-> box[p]]) :
          \E st \in {OrganizerFrom([tree |-> box, ops |-> box_ops], files, 1, tool_dry_run)} :
             /\ box' = st.tree
             /\ box_ops' = st.ops
    /\ gpc' = "organized"
    /\ UNCHANGED <<folders, box_orig, tool_dry_run, live_runs, kpc, boxRest>>

\* generate_readme of the organizer and the end of run
OrganizerGenerateReadme ==
    /\ gpc = "organized"
    /\ IF tool_dry_run THEN UNCHANGED <<box, box_ops, live_runs>>
       ELSE /\ box' = WriteFile(box, Root("README.md"), OrganizerReadme)
            /\ box_ops' = box_ops \cup {Op("write", Root("README.md"), OrganizerReadme)}
            /\ live_runs' = live_runs + 1
    /\ gpc' = "done"
    /\ UNCHANGED <<folders, box_orig, tool_dry_run, kpc, boxRest>>

OrganizerNext ==
    \/ OrganizerRun
    \/ OrganizerCreateSubfolders
    \/ OrganizerOrganizeFiles
    \/ OrganizerGenerateReadme

SpecOrganizer == OrganizerInit /\ [][OrganizerNext]_vars

(***************************************************************************)
(* Properties                                                              *)
(***************************************************************************)
\* the names a live run has consumed: both files of every pair printed as merged
Consumed ==
    UNION {{out[k].file1, out[k].file2} : k \in {j \in DOMAIN out : out[j].result = "merged"}}

\* a file of that name exists somewhere under the inbox
ExistsAnywhere(tree, n) == \E p \in DOMAIN tree : p.name = n

\* the state right after process_exact_duplicates of a live run
AfterExactDuplicates == pc = "similar" /\ pi = 1 /\ out = <<>> /\ ~dry_run

\* the live run works on a report the analyzer produced from this very inbox
FreshReport == report.exists /\ orig = analysed

\* s is a subsequence of t
RECURSIVE IsSubseq(_, _)
IsSubseq(s, t) ==
    IF s = <<>> THEN TRUE
    ELSE IF t = <<>> THEN FALSE
    ELSE IF Head(s) = Head(t) THEN IsSubseq(Tail(s), Tail(t))
    ELSE IsSubseq(s, Tail(t))

\* s and t hold the same lines, each the same number of times
SameBag(s, t) == \A x \in Range(s) \cup Range(t) : Count(s, x) = Count(t, x)

\* C1: after a live run over a report the analyzer produced from the same
\* inbox, every line of every original document is still in some file under
\* the inbox.
C1_NoContentLost ==
    (pc = "done" /\ ~dry_run /\ FreshReport) => LinesOf(orig) \subseteq LinesOf(fs)

\* C2: in a live run, a candidate pair that names a file consumed by an earlier
\* merge of the run is skipped: nothing is read, written or deleted, and the
\* pair is printed as skipped; so no document is an input of two merges.
C2_ConsumedOnce ==
    [][(/\ pc = "similar"
        /\ ~dry_run
        /\ pi <= Len(candidates)
        /\ {candidates[pi].file1, candidates[pi].file2} \cap Consumed # {})
       => (/\ fs' = fs
           /\ ops' = ops
           /\ pc' = "similar"
           /\ pi' = pi + 1
           /\ out' = Append(out, Printed(candidates[pi].file1,
                                         candidates[pi].file2, "skipped")))]_vars

\* C2 witness: a live run has merged one pair and skipped a later one
C2_Witness ==
    /\ pc = "done"
    /\ ~dry_run
    /\ \E j, k \in DOMAIN out :
          j < k /\ out[j].result = "merged" /\ out[k].result = "skipped"

\* C3: when <first stem>-merged.md already exists, a live run skips the pair:
\* no file changes and the run goes on with the next pair.
C3_SkipOnCollision ==
    [][(/\ pc = "similar"
        /\ ~dry_run
        /\ pi <= Len(candidates)
        /\ {candidates[pi].file1, candidates[pi].file2} \cap Consumed = {}
        /\ Exists(fs, Root(candidates[pi].file1))
        /\ Exists(fs, Root(candidates[pi].file2))
        /\ Exists(fs, Root(SuggestMergeName(<<candidates[pi].file1,
                                              candidates[pi].file2>>))))
       => (fs' = fs /\ pc' = "similar" /\ pi' = pi + 1)]_vars

\* C4: a dry run changes no file: at every point of it the inbox tree and the
\* report are as they were when it started, and it has written and deleted
\* nothing.
C4_DryRunChangesNothing ==
    (dry_run /\ pc \in {"exact", "similar", "done", "crashed"})
        => /\ fs = orig
           /\ report = analysis_data
           /\ \A k \in DOMAIN ops : ops[k].op \notin {"write", "unlink"}

\* C4 witness: a completed dry run over a report with a duplicate group whose
\* extra member exists, and with a pair it reported as merged
C4_Witness ==
    /\ pc = "done"
    /\ dry_run
    /\ \E g \in DOMAIN analysis_data.exact_duplicates :
          Exists(fs, Root(analysis_data.exact_duplicates[g].files[2]))
    /\ \E k \in DOMAIN out : out[k].result = "merged"

\* C5: for the same report and inbox, a dry run prints the same pairs as merged
\* and as skipped as the live run.
C5_DryRunPredictsLive ==
    (pc = "done" /\ ~dry_run /\ dryOut.exists /\ dryOut.orig = orig)
        => dryOut.out = out

\* C6: after process_exact_duplicates of a live run, the first-listed file of
\* every group exists and no other listed file of the group exists.
C6_KeepFirstDeleteRest ==
    (AfterExactDuplicates /\ FreshReport)
        => \A g \in DOMAIN analysis_data.exact_duplicates :
              LET files == analysis_data.exact_duplicates[g].files
              IN  /\ ExistsAnywhere(fs, files[1])
                  /\ \A k \in 2..Len(files) : ~ExistsAnywhere(fs, files[k])

\* C7: every file process_exact_duplicates deleted in a live run has the
\* content of the group it was listed in (the content of the kept member).
C7_DeletedAreIdentical ==
    (AfterExactDuplicates /\ FreshReport)
        => \A p \in DOMAIN orig \ DOMAIN fs :
              \E g \in DOMAIN analysis_data.exact_duplicates :
                 LET grp == analysis_data.exact_duplicates[g]
                 IN  /\ \E k \in 2..Len(grp.files) : grp.files[k] = p.name
                     /\ Md5(orig[p]) = grp.hash

\* C8: at the end of a live run every merged file written holds the content
\* written for its pair, and both sources of every merged pair are gone.
C8_MergedOutputsStand ==
    (pc = "done" /\ ~dry_run)
        => /\ \A k \in DOMAIN ops :
                 ops[k].op = "write"
                    => /\ Exists(fs, Root(ops[k].name))
                       /\ fs[Root(ops[k].name)] = ops[k].content
           /\ \A k \in DOMAIN out :
                 out[k].result = "merged"
                    => /\ ~Exists(fs, Root(out[k].file1))
                       /\ ~Exists(fs, Root(out[k].file2))

\* C9: the partition is lossless: unique1 and common have together as many
\* lines as lines1, unique2 and common as many as lines2; the covered indices
\* are indices of their list, as many as common has lines; and unique plus
\* common hold every line of the source exactly as often as the source does.
C9_PartitionLossless ==
    ppc = "returned"
        => /\ Len(sections.unique1) + Len(sections.common) = Len(lines1)
           /\ Len(sections.unique2) + Len(sections.common) = Len(lines2)
           /\ sections.processed1 \subseteq 0..(Len(lines1) - 1)
           /\ sections.processed2 \subseteq 0..(Len(lines2) - 1)
           /\ Cardinality(sections.processed1) = Len(sections.common)
           /\ Cardinality(sections.processed2) = Len(sections.common)
           /\ SameBag(sections.unique1 \o sections.common, lines1)
           /\ SameBag(sections.unique2 \o sections.common, lines2)

\* C9 witness: a partition with two matching blocks and unique lines on both sides
C9_Witness ==
    /\ ppc = "returned"
    /\ Len(GetMatchingBlocks(lines1, lines2)) >= 3
    /\ sections.unique1 # <<>>
    /\ sections.unique2 # <<>>

\* C10: the partition keeps the order: unique1 is a subsequence of lines1,
\* unique2 of lines2, and common of both.
C10_PartitionKeepsOrder ==
    ppc = "returned"
        => /\ IsSubseq(sections.unique1, lines1)
           /\ IsSubseq(sections.unique2, lines2)
           /\ IsSubseq(sections.common, lines1)
           /\ IsSubseq(sections.common, lines2)

\* C10 witness: two matching blocks, the lists differing in what lies between
C10_Witness ==
    /\ ppc = "returned"
    /\ Len(GetMatchingBlocks(lines1, lines2)) >= 3
    /\ Len(sections.common) >= 2
    /\ lines1 # lines2

\* the indices of the groups of self.exact_duplicates that list the path p
GroupsOf(p) ==
    {g \in DOMAIN self_exact_duplicates : p \in Range(self_exact_duplicates[g].files)}

\* the paths of the loaded files whose content hash is h
Bucket(h) == {self_files[k].path : k \in {j \in DOMAIN self_files : self_files[j].hash = h}}

\* C11: after find_exact_duplicates the groups are exactly the content-hash
\* buckets with at least 2 members, each listed once and without repeats; the
\* groups are pairwise disjoint; a loaded file is in exactly one group when
\* another loaded file has its content, and in no group otherwise.
C11_GroupsAreHashBuckets ==
    apc \in {"similar", "report", "exit0"}
        => /\ \A g \in DOMAIN self_exact_duplicates :
                 LET grp == self_exact_duplicates[g]
                 IN  /\ Range(grp.files) = Bucket(grp.hash)
                     /\ Cardinality(Range(grp.files)) >= 2
                     /\ Len(grp.files) = Cardinality(Range(grp.files))
           /\ \A k \in DOMAIN self_files :
                 Cardinality(Bucket(self_files[k].hash)) >= 2
                    => \E g \in DOMAIN self_exact_duplicates :
                          self_exact_duplicates[g].hash = self_files[k].hash
           /\ \A g1, g2 \in DOMAIN self_exact_duplicates :
                 g1 # g2 => Range(self_exact_duplicates[g1].files)
                               \cap Range(self_exact_duplicates[g2].files) = {}
           /\ \A k \in DOMAIN self_files :
                 Cardinality(GroupsOf(self_files[k].path)) =
                    IF \E j \in DOMAIN self_files :
                          j # k /\ self_files[j].content = self_files[k].content
                    THEN 1 ELSE 0

\* C11 witness: find_exact_duplicates has returned a group, and a loaded file
\* with a content of its own is in none
C11_Witness ==
    /\ apc = "similar"
    /\ self_exact_duplicates # <<>>
    /\ \E k \in DOMAIN self_files : GroupsOf(self_files[k].path) = {}

\* the pairs of loaded files, as positions i < j of self.files, that differ in
\* their hash and reach the threshold in content similarity or in line overlap
QualifyingPairs ==
    {ij \in (DOMAIN self_files) \X (DOMAIN self_files) :
        /\ ij[1] < ij[2]
        /\ self_files[ij[1]].hash # self_files[ij[2]].hash
        /\ \/ RatioGeq(SequenceMatcherRatio(Chars(self_files[ij[1]].content),
                                            Chars(self_files[ij[2]].content)),
                        SimilarityThreshold)
           \/ RatioGeq(CalculateLineOverlap(self_files[ij[1]].line_hashes,
                                            self_files[ij[2]].line_hashes).ratio,
                        SimilarityThreshold)}

\* C12: after find_similar_files there are as many matches naming (n1, n2) as
\* file1 and file2 as there are pairs of loaded files i < j named n1 and n2
\* whose hashes differ and of which the content similarity or the line
\* overlap is at least the threshold: each such pair is recorded once, and
\* nothing else is, in particular no pair of exact duplicates.
C12_MatchesAreQualifyingPairs ==
    apc \in {"report", "exit0"}
        => \E qualifying \in {QualifyingPairs} :
              /\ Len(self_similar_pairs) = Cardinality(qualifying)
              /\ \A i, j \in DOMAIN self_files :
                    Cardinality({k \in DOMAIN self_similar_pairs :
                                    /\ self_similar_pairs[k].file1 = self_files[i].name
                                    /\ self_similar_pairs[k].file2 = self_files[j].name})
                    = Cardinality({ij \in qualifying :
                                    /\ self_files[ij[1]].name = self_files[i].name
                                    /\ self_files[ij[2]].name = self_files[j].name})

\* C12 witness: find_similar_files has recorded two pairs that reach the
\* threshold in content similarity only, and has passed over a pair of exact
\* duplicates
C12_Witness ==
    /\ apc = "report"
    /\ Len(self_files) = 3
    /\ Len(self_similar_pairs) = 2
    /\ \A k \in DOMAIN self_similar_pairs :
          ~RatioGeq(self_similar_pairs[k].line_overlap, SimilarityThreshold)
    /\ \E i, j \in DOMAIN self_files :
          i < j /\ self_files[i].hash = self_files[j].hash

\* the matches of ms whose line overlap equals that of r, in the order of ms
WithOverlapOf(ms, r) ==
    SelectSeq(ms, LAMBDA x : RatioGeq(x.line_overlap, r) /\ RatioGeq(r, x.line_overlap))

\* C13: the final list of matches is in descending order of line overlap, and
\* the matches of each line overlap are those the pair loop found with that
\* overlap, in the order it found them.
C13_SortedStable ==
    apc \in {"report", "exit0"}
        => \E discovered \in {DiscoveredPairs(self_files)} :
              /\ \A k, l \in DOMAIN self_similar_pairs :
                    k < l => RatioGeq(self_similar_pairs[k].line_overlap,
                                      self_similar_pairs[l].line_overlap)
              /\ Len(self_similar_pairs) = Len(discovered)
              /\ \A k \in DOMAIN self_similar_pairs :
                    WithOverlapOf(self_similar_pairs, self_similar_pairs[k].line_overlap)
                    = WithOverlapOf(discovered, self_similar_pairs[k].line_overlap)

\* C13 witness: the pair loop found a match of lower overlap before two
\* different matches of one higher overlap: the sort moved it behind them
C13_Witness ==
    /\ apc = "report"
    /\ Len(self_similar_pairs) = 3
    /\ self_similar_pairs # DiscoveredPairs(self_files)
    /\ self_similar_pairs[1] # self_similar_pairs[2]
    /\ self_similar_pairs[1].line_overlap = self_similar_pairs[2].line_overlap

\* the ratios r1 and r2 are the same number
RatioEq(r1, r2) == r1.num * r2.den = r2.num * r1.den

\* C14: calculate_line_overlap returns the number of distinct hashes the two
\* lists share and that number divided by the larger number of distinct
\* hashes of a list, (0.0, 0) when neither list has a hash; the ratio is
\* between 0 and 1; and repeating, anywhere in a list, a hash the list
\* already holds changes nothing.
C14_LineOverlapOfSets ==
    opc = "returned"
        => LET A == {arg_hashes1[k] : k \in DOMAIN arg_hashes1}
               B == {arg_hashes2[k] : k \in DOMAIN arg_hashes2}
               larger == IF Cardinality(A) >= Cardinality(B)
                         THEN Cardinality(A) ELSE Cardinality(B)
           IN  /\ ret_overlap.common = Cardinality(A \cap B)
               /\ IF A = {} /\ B = {}
                  THEN ret_overlap.ratio.num = 0
                  ELSE ret_overlap.ratio.num * larger
                          = Cardinality(A \cap B) * ret_overlap.ratio.den
               /\ ret_overlap.ratio.den > 0
               /\ 0 <= ret_overlap.ratio.num
               /\ ret_overlap.ratio.num <= ret_overlap.ratio.den
               /\ \A x \in A, k \in 0..Len(arg_hashes1) :
                     CalculateLineOverlap(
                         Slice(arg_hashes1, 0, k) \o <<x>>
                            \o Slice(arg_hashes1, k, Len(arg_hashes1)),
                         arg_hashes2) = ret_overlap
               /\ \A y \in B, k \in 0..Len(arg_hashes2) :
                     CalculateLineOverlap(
                         arg_hashes1,
                         Slice(arg_hashes2, 0, k) \o <<y>>
                            \o Slice(arg_hashes2, k, Len(arg_hashes2)))
                     = ret_overlap

\* C14 witness: the call has returned on a list that repeats a hash and a
\* list with more distinct hashes, one of them shared and one not
C14_Witness ==
    /\ opc = "returned"
    /\ Len(arg_hashes1) > Cardinality(Range(arg_hashes1))
    /\ Cardinality(Range(arg_hashes1)) < Cardinality(Range(arg_hashes2))
    /\ ret_overlap.common = 1
    /\ Range(arg_hashes2) \ Range(arg_hashes1) # {}

\* C15: the line overlap is symmetric: the call on (A, B) returned what the
\* call on (B, A) returns, the ratio and the count.
C15_LineOverlapSymmetric ==
    opc = "returned"
        => LET swapped == CalculateLineOverlap(arg_hashes2, arg_hashes1)
           IN  /\ RatioEq(ret_overlap.ratio, swapped.ratio)
               /\ ret_overlap.common = swapped.common

\* C15 witness: the call has returned on two lists with different numbers of
\* distinct hashes that share a hash
C15_Witness ==
    /\ opc = "returned"
    /\ Cardinality(Range(arg_hashes1)) # Cardinality(Range(arg_hashes2))
    /\ ret_overlap.common > 0

\* the two texts have no character in common
NoCommonChar ==
    {arg_content1[k] : k \in DOMAIN arg_content1}
        \cap {arg_content2[k] : k \in DOMAIN arg_content2} = {}

\* the returned ratio is 2 * M / T, M the total size of the matching blocks
\* and T the combined length of the texts (when T is not 0)
RatioIsTwiceMatchesOverLength ==
    Len(arg_content1) + Len(arg_content2) > 0
        => ret_similarity.num * (Len(arg_content1) + Len(arg_content2))
              = 2 * Matches(GetMatchingBlocks(arg_content1, arg_content2))
                  * ret_similarity.den

\* C16 as stated: the similarity is 2 * M / T; of a non-empty text with itself
\* it is 1.0; of two texts with no character in common it is 0.0.
C16_SimilarityEnds ==
    spc = "returned"
        => /\ RatioIsTwiceMatchesOverLength
           /\ (arg_content1 = arg_content2 /\ arg_content1 # <<>>)
                 => ret_similarity.num = ret_similarity.den
           /\ NoCommonChar => ret_similarity.num = 0

\* C16 amended: the similarity is 2 * M / T; of a non-empty text with itself
\* it is 1.0; of two texts with no character in common, not both empty, it
\* is 0.0 (of two empty texts it is 1.0).
C16_SimilarityEndsNotBothEmpty ==
    spc = "returned"
        => /\ RatioIsTwiceMatchesOverLength
           /\ ret_similarity.den > 0
           /\ (arg_content1 = arg_content2 /\ arg_content1 # <<>>)
                 => ret_similarity.num = ret_similarity.den
           /\ (NoCommonChar /\ (arg_content1 # <<>> \/ arg_content2 # <<>>))
                 => ret_similarity.num = 0
           /\ (arg_content1 = <<>> /\ arg_content2 = <<>>)
                 => ret_similarity.num = ret_similarity.den

\* C16 witness: the call has returned on two non-empty texts of different
\* lengths with no character in common
C16_Witness ==
    /\ spc = "returned"
    /\ Len(arg_content1) >= 2
    /\ Len(arg_content2) > Len(arg_content1)
    /\ NoCommonChar

\* C17: a missing input is fatal and changes nothing: when the inbox
\* directory does not exist the analyzer ends with status 1 and writes no
\* report; when the report does not exist the merger ends with status 1 and
\* has read, written and deleted nothing.
C17_MissingInputIsFatal ==
    [][/\ (apc = "idle" /\ ~inbox_exists /\ apc' # apc)
             => (apc' = "exit1" /\ report' = report /\ fs' = fs)
       /\ (pc = "idle" /\ ~report.exists /\ pc' # pc)
             => (pc' = "exit1" /\ report' = report /\ fs' = fs /\ ops' = ops)]_vars

\* C17 witness: the inbox directory does not exist; the analyzer and then the
\* merger have been run and both have ended with status 1
C17_Witness ==
    /\ ~inbox_exists
    /\ apc = "exit1"
    /\ pc = "exit1"
    /\ ~report.exists

\* the next candidate pair names a document that is not in the inbox
PairDocumentMissing ==
    /\ pc = "similar"
    /\ pi <= Len(candidates)
    /\ ~AlreadyMerged(candidates[pi].file1, candidates[pi].file2, merged_files)
    /\ \/ ~Exists(fs, Root(candidates[pi].file1))
       \/ ~Exists(fs, Root(candidates[pi].file2))

\* C18: a candidate pair of which a document is missing from the inbox does
\* not end the run: its step leaves every file as it is and the run goes on
\* with the next pair.
C18_PairFailureContained ==
    [][PairDocumentMissing
          => (fs' = fs /\ pc' = "similar" /\ pi' = pi + 1)]_vars

\* C19: in the operations of one merger run no read_file call comes after a
\* write of a merged file or a deletion.
C19_ReadsBeforeWrites ==
    \A j, k \in DOMAIN ops :
        (j < k /\ ops[j].op \in {"write", "unlink"})
            => ops[k].op \notin {"read", "read_failed"}

\* the .md / .txt files of the inbox that can be read
ReadableDocuments ==
    {p \in DOMAIN fs : p.name.suffix \in {".md", ".txt"} /\ p \notin unreadable}

\* C20: load_files never ends in an exception; once it has returned, the
\* corpus holds every readable .md / .txt file of the inbox once, with its
\* content, and no other file; and when the corpus is empty the run still
\* ends with status 0 and a report with 0 files, no group and no pair.
C20_LoadSkipsUnreadable ==
    /\ apc # "raised"
    /\ apc \in {"exact", "similar", "report", "exit0"}
          => /\ {self_files[k].path : k \in DOMAIN self_files} = ReadableDocuments
             /\ Len(self_files) = Cardinality(ReadableDocuments)
             /\ \A k \in DOMAIN self_files :
                   self_files[k].content = fs[self_files[k].path]
    /\ (apc = "report" /\ self_files = <<>>)
          => (self_exact_duplicates = <<>> /\ self_similar_pairs = <<>>)
    /\ (apc = "exit0" /\ self_files = <<>>)
          => /\ report.exists
             /\ report.total_files = 0
             /\ report.exact_duplicates = <<>>
             /\ report.similar_pairs = <<>>

\* C20 witness: the analyzer has ended with status 0 on an inbox with a
\* document that cannot be read and two readable ones, which were loaded
C20_Witness ==
    /\ apc = "exit0"
    /\ \E p \in unreadable : p.name.suffix \in {".md", ".txt"}
    /\ Len(self_files) = 2
    /\ report.total_files = 2

\* the rule file of that name in the canonical directory, in the adapter
\* directory of the tool collect_rules was called for
CanonicalRule(n) == [dir |-> SOURCE_DIR, name |-> n]

AdapterRule(n) == [dir |-> arg_tool_name, name |-> n]

\* the positions of ret_rules holding an entry of that file name
EntriesNamed(n) == {k \in DOMAIN ret_rules : ret_rules[k].path.name = n}

\* the sort key the file at place p has by its own text: its order field, 999
\* when it has none, then the position of its name among the names
RuleKey(p) ==
    <<IF agent_rules[p] = "" THEN 999 ELSE IntOf(agent_rules[p]),
      CHOOSE i \in DOMAIN RuleNames : RuleNames[i] = p.name>>

LinesAt(line) == {k \in DOMAIN ret_merged : ret_merged[k] = line}

\* ret_merged holds the section of that header exactly when the group has a line:
\* then the header is there once, followed by a blank line and the group
SectionEmitted(header, group) ==
    IF group = <<>> THEN LinesAt(header) = {}
    ELSE \E k \in DOMAIN ret_merged :
            /\ LinesAt(header) = {k}
            /\ k + 1 + Len(group) <= Len(ret_merged)
            /\ ret_merged[k + 1] = ""
            /\ SubSeq(ret_merged, k + 2, k + 1 + Len(group)) = group

\* C22: the text merge_two_files(file1, file2) returns holds the section
\* "Common Content" exactly when the partition of the two files has common lines,
\* the section "Additional Content from <file1>" exactly when file1 has unique
\* lines and "Additional Content from <file2>" exactly when file2 has; each
\* section holds its group; the three come in that order; and every line of
\* file1 and of file2 is a line of the text.
C22_SectionsInOrder ==
    mpc = "two" =>
        \E file1 \in {arg_files[1]}, file2 \in {arg_files[2]} :
           \E u \in {FindUniqueSections(fs[Root(file1)], fs[Root(file2)])} :
              /\ SectionEmitted("## Common Content", u.common)
              /\ SectionEmitted("## Additional Content from " \o NameStr(file1), u.unique1)
              /\ SectionEmitted("## Additional Content from " \o NameStr(file2), u.unique2)
              /\ \A c \in LinesAt("## Common Content") :
                    \A k \in LinesAt("## Additional Content from " \o NameStr(file1))
                             \cup LinesAt("## Additional Content from " \o NameStr(file2)) :
                       c < k
              /\ \A j \in LinesAt("## Additional Content from " \o NameStr(file1)) :
                    \A k \in LinesAt("## Additional Content from " \o NameStr(file2)) :
                       j < k
              /\ Range(fs[Root(file1)]) \cup Range(fs[Root(file2)]) \subseteq Range(ret_merged)

\* merge_two_files has returned a text with all three sections
C22_Witness ==
    /\ mpc = "two"
    /\ LinesAt("## Common Content") # {}
    /\ LinesAt("## Additional Content from " \o NameStr(arg_files[1])) # {}
    /\ LinesAt("## Additional Content from " \o NameStr(arg_files[2])) # {}

\* C23: merge_multiple_files returns the empty text for no file and the file's
\* own content for one file; for two files or more, every line of every file of
\* the list is a line of the returned text.
C23_FoldsKeepEveryLine ==
    mpc = "multiple" =>
        /\ Len(arg_files) = 0 => ret_merged = <<>>
        /\ Len(arg_files) = 1 => ret_merged = fs[Root(arg_files[1])]
        /\ Len(arg_files) >= 2 =>
              \A k \in DOMAIN arg_files :
                 Range(fs[Root(arg_files[k])]) \subseteq Range(ret_merged)

\* merge_multiple_files has folded a third file into the merge of two, each of
\* the three files holding a line that one of the others has not
C23_Witness ==
    /\ mpc = "multiple"
    /\ Len(arg_files) = 3
    /\ Range(fs[Root(arg_files[1])]) # Range(fs[Root(arg_files[2])])
    /\ Range(fs[Root(arg_files[3])]) \ Range(fs[Root(arg_files[1])]) # {}
    /\ Range(fs[Root(arg_files[1])]) \ Range(fs[Root(arg_files[3])]) # {}

\* the blocks of lines1 and lines2 that have at least that many lines
BlocksOfAtLeast(m) ==
    {match \in Range(GetMatchingBlocks(lines1, lines2)) : match.size >= m}

\* C24: find_common_sections(A, B, m), m a positive number of lines, returns one
\* section per matching block of at least m lines and no other; each section
\* (start, end, text) has end - start >= m and 0 <= start < end <= len(A), its
\* text is the lines A[start:end] joined by newlines, the same lines stand
\* together somewhere in B, and each section ends before the next one starts.
C24_CommonSections ==
    cpc = "returned" =>
        /\ {<<s.start, s.end>> : s \in Range(ret_common_sections)}
              = {<<match.a, match.a + match.size>> :
                    match \in BlocksOfAtLeast(arg_min_section_lines)}
        /\ \A k \in DOMAIN ret_common_sections :
              \E s \in {ret_common_sections[k]} :
                 /\ s.end - s.start >= arg_min_section_lines
                 /\ 0 <= s.start
                 /\ s.start < s.end
                 /\ s.end <= Len(lines1)
                 /\ s.content = JoinLines(Slice(lines1, s.start, s.end))
                 /\ \E b \in 0..(Len(lines2) - (s.end - s.start)) :
                       Slice(lines2, b, b + (s.end - s.start))
                          = Slice(lines1, s.start, s.end)
        /\ \A j, k \in DOMAIN ret_common_sections :
              j < k => ret_common_sections[j].end <= ret_common_sections[k].start

\* find_common_sections has returned a section of two lines or more that does
\* not start A, for lists that are not the same
C24_Witness ==
    /\ cpc = "returned"
    /\ arg_min_section_lines >= 2
    /\ lines1 # lines2
    /\ \E s \in Range(ret_common_sections) : s.start > 0

\* the pairs of the loaded report that clear the minimum overlap, in report order
ClearingPairs ==
    SelectSeq(analysis_data.similar_pairs, LAMBDA pr : pr.line_overlap >= MinOverlap)

\* the names the loaded report lists for deletion as exact duplicates
ExactExtras ==
    UNION {Range(Tail(analysis_data.exact_duplicates[g].files)) :
              g \in DOMAIN analysis_data.exact_duplicates}

\* C25: in a merger run, the pairs the loop has gone through are, in order, the
\* pairs of the report whose line_overlap is at least min_overlap, and no other
\* pair; a file is written only as the merge of such a pair printed as merged,
\* and a file is deleted only as an extra of an exact-duplicate group or as a
\* document of such a pair; when no pair clears min_overlap nothing is merged
\* or written.
C25_OnlyClearingPairs ==
    pc \in {"similar", "done", "crashed"} =>
        \E clearing \in {ClearingPairs} :
           /\ Len(out) <= Len(clearing)
           /\ \A k \in DOMAIN out :
                 /\ out[k].file1 = clearing[k].file1
                 /\ out[k].file2 = clearing[k].file2
                 /\ clearing[k].line_overlap >= MinOverlap
           /\ \A i \in DOMAIN ops :
                 /\ ops[i].op = "write" =>
                       \E k \in DOMAIN out :
                          /\ out[k].result = "merged"
                          /\ ops[i].name = SuggestMergeName(<<out[k].file1, out[k].file2>>)
                 /\ ops[i].op = "unlink" =>
                       \/ ops[i].name \in ExactExtras
                       \/ \E k \in DOMAIN out :
                             /\ out[k].result = "merged"
                             /\ ops[i].name \in {out[k].file1, out[k].file2}
           /\ clearing = <<>> =>
                 /\ out = <<>>
                 /\ \A i \in DOMAIN ops : ops[i].op = "unlink"
                 /\ \A p \in DOMAIN fs : p \in DOMAIN orig /\ fs[p] = orig[p]

\* a live run is over: it has merged a pair, and the report holds a pair below
\* the minimum overlap, which the run has not printed
C25_Witness ==
    /\ pc = "done"
    /\ ~dry_run
    /\ \E k \in DOMAIN out : out[k].result = "merged"
    /\ \E j \in DOMAIN analysis_data.similar_pairs :
          /\ analysis_data.similar_pairs[j].line_overlap < MinOverlap
          /\ \A k \in DOMAIN out :
                <<out[k].file1, out[k].file2>>
                   # <<analysis_data.similar_pairs[j].file1,
                        analysis_data.similar_pairs[j].file2>>

\* the longest common run of a[alo:ahi] and b[blo:bhi], every element counting:
\* of the longest runs the one starting earliest in a, then earliest in b
PlainLongest(a, b, alo, ahi, blo, bhi) ==
    BestRun(RunsOf(a, b, alo, ahi, blo, bhi, {}), alo, blo)

\* the plain recursive decomposition: the longest common run, then the same on
\* the parts left and right of it
RECURSIVE PlainWindow(_, _, _, _, _, _)
PlainWindow(a, b, alo, ahi, blo, bhi) ==
    IF alo >= ahi \/ blo >= bhi THEN <<>>
    ELSE LET m == PlainLongest(a, b, alo, ahi, blo, bhi)
         IN  IF m.size = 0 THEN <<>>
             ELSE PlainWindow(a, b, alo, m.a, blo, m.b)
                  \o <<m>>
                  \o PlainWindow(a, b, m.a + m.size, ahi, m.b + m.size, bhi)

PlainBlocks(a, b) ==
    Append(Collapse(PlainWindow(a, b, 0, Len(a), 0, Len(b)), <<>>),
           [a |-> Len(a), b |-> Len(b), size |-> 0])

\* C26: the matching blocks the matcher computes are those of the plain
\* recursive longest-common-run decomposition, in which no element is left out
\* of the matching, whatever the lengths of the two sequences.
C26_EveryElementSignificant ==
    spc = "returned" => ret_blocks = PlainBlocks(arg_content1, arg_content2)

\* C27: in a live run over a report the analyzer produced from the same inbox,
\* no read_file call is for a name the run has deleted before, be it as an
\* exact duplicate or as a source of a merged pair.
C27_NoReadOfDeleted ==
    (pc \in {"exact", "similar", "done", "crashed"} /\ ~dry_run /\ FreshReport)
        => \A j, k \in DOMAIN ops :
              (j < k /\ ops[j].op = "unlink" /\ ops[k].op \in {"read", "read_failed"})
                 => ops[k].name # ops[j].name

\* C28: when the analyzer has been run at least twice in a row, the last run
\* has left the report the run before it left (same total_files, groups and
\* pairs), and none of the files it loaded is under _analysis.
C28_ReanalysisIdempotent ==
    runs >= 2 =>
        /\ report = prev_report
        /\ \A k \in DOMAIN self_files : self_files[k].path.dir # ReportFile.dir

\* the merged targets a run wrote although no source file of theirs was there
EmptyMerges ==
    {k \in DOMAIN files_to_merge :
        /\ \E o \in box_ops : o.op = "write" /\ o.name = Root(files_to_merge[k].target_name)
        /\ \A j \in DOMAIN files_to_merge[k].source_files :
              ~Exists(box_orig, Root(files_to_merge[k].source_files[j]))}

\* C29: a live run of the cleaner that follows a live run, on the inbox that
\* run left, deletes, merges, renames and moves nothing and creates no
\* document: README.md is the only file it writes, every other file is where
\* and what it was; and no run writes a merged target none of whose source
\* files exists.
C29_CleanupIdempotent ==
    /\ (kpc = "done" /\ ~tool_dry_run /\ live_runs >= 2) =>
          /\ \A o \in box_ops : o.op = "write" /\ o.name = Root("README.md")
          /\ DOMAIN box \ {Root("README.md")} = DOMAIN box_orig \ {Root("README.md")}
          /\ \A p \in DOMAIN box \ {Root("README.md")} : box[p] = box_orig[p]
    /\ EmptyMerges = {}

\* the files of the tree the organizer's run started on that organize_files
\* is to move: the root files some rule takes
ToMove == {p \in DOMAIN box_orig : p.dir = "" /\ target_folder(p.name) # ""}

\* the file at q is the file that was at p, moved to its folder under its own
\* name or under the first free <stem>_<n><ext>
MovedTo(p, q) ==
    /\ q \in DOMAIN box \ DOMAIN box_orig
    /\ q.dir = target_folder(p.name)
    /\ box[q] = box_orig[p]
    /\ \/ q.name = p.name
       \/ /\ Exists(box, In(q.dir, p.name))
          /\ \E n \in 1..(Cardinality(DOMAIN box_orig) + 1) :
                /\ q.name = PathStem(p.name) \o "_" \o ToString(n) \o PathSuffix(p.name)
                /\ \A m \in 1..(n - 1) :
                      Exists(box, In(q.dir, PathStem(p.name) \o "_" \o ToString(m)
                                               \o PathSuffix(p.name)))

\* C30: when a live organize_files has returned, no file is overwritten or
\* lost: every file that was in a category folder, and every root file no
\* rule takes, is where it was with its content; every root file a rule takes
\* is in its folder with its content, under its own name or, when that was
\* taken, under the first free <stem>_<n><ext>, no two of them in one place;
\* and the inbox holds no other file.
C30_OrganizeKeepsEveryFile ==
    (gpc = "organized" /\ ~tool_dry_run) =>
        /\ \A p \in DOMAIN box_orig \ ToMove : Exists(box, p) /\ box[p] = box_orig[p]
        /\ \A p \in ToMove : ~Exists(box, p)
        /\ \E to \in [ToMove -> DOMAIN box \ DOMAIN box_orig] :
              /\ \A p \in ToMove : MovedTo(p, to[p])
              /\ \A p1, p2 \in ToMove : p1 # p2 => to[p1] # to[p2]
        /\ Cardinality(DOMAIN box) = Cardinality(DOMAIN box_orig)

\* a live organize_files has moved a file whose name and whose <stem>_1<ext>
\* were both taken in its folder
C30_Witness ==
    /\ gpc = "organized"
    /\ ~tool_dry_run
    /\ \E p \in ToMove :
          /\ Exists(box_orig, In(target_folder(p.name), p.name))
          /\ Exists(box_orig, In(target_folder(p.name),
                                 PathStem(p.name) \o "_1" \o PathSuffix(p.name)))
          /\ Exists(box, In(target_folder(p.name),
                            PathStem(p.name) \o "_2" \o PathSuffix(p.name)))
          /\ ~Exists(box_orig, In(target_folder(p.name),
                                  PathStem(p.name) \o "_2" \o PathSuffix(p.name)))

====
